---- MODULE Spec2Model ----
(***************************************************************************)
(* A model of the secure protocol gateway (razizian/secure-gateway-rust):  *)
(* the router (gateway/router.rs), the transformer                         *)
(* (gateway/transformer.rs), the key store (security/key_manager.rs), the  *)
(* security envelope (security/mod.rs, security/crypto.rs) and the         *)
(* processing pipeline (gateway/mod.rs).                                   *)
(*                                                                         *)
(* Conventions.  Option<T> is a sequence of length at most one: <<>> is    *)
(* None and <<v>> is Some(v).  A Rust String that the code parses          *)
(* (filter and field-map values) or compares (addresses) is a sequence of  *)
(* one-character strings, so that str::parse is computed and not assumed.  *)
(* Vec indices are 1-based here and 0-based in the source.                 *)
(***************************************************************************)
EXTENDS Naturals, Integers, Sequences, FiniteSets, TLC

VARIABLES
    rules,          \* Router.rules: Vec<TranslationRule>
    rule_map,       \* Router.rule_map: HashMap<(ProtocolType, Option<ProtocolType>), Vec<usize>>
    routed,         \* the last find_rule call: <<>> or <<[msg, res]>>
    removed         \* what the last remove_rule call returned: "", "Ok" or "RuleNotFound"

routerVars == <<rules, rule_map, routed, removed>>

VARIABLES
    keys,           \* KeyManager.keys: HashMap<String, KeyEntry>
    persistent,     \* KeyManager.persistent (storage_path is then Some)
    key_file,       \* the key store file: None when absent, else Some(the keyset written)
    now,            \* the wall clock, SystemTime::now() in seconds
    secured,        \* the last secure_message call: <<>> or <<[data, mode, key_id, res]>>
    extracted,      \* extract_message of that call's SecuredMessage: <<>> or <<res>>
    last            \* the last call the key store specification made: its arguments,
                    \* what it returned, and the key map and the file it started from

secVars == <<keys, persistent, key_file, now, secured, extracted, last>>

VARIABLES
    command_tx,       \* Gateway.command_tx is Some
    is_shutting_down, \* Gateway.is_shutting_down
    run_pc,           \* where Gateway::run is: "init", "recv", "process", "shutdown", "exit", "done"
    chan,             \* the commands buffered in the mpsc channel, oldest first
    cur,              \* the command run has received and is handling: <<>> or <<cmd>>
    calls,            \* the calls of Gateway::process_message and Gateway::shutdown, by id
    arrived,          \* the ids of the commands in the order the channel accepted them
    dequeued,         \* the ids of the commands in the order run received them
    answered,         \* the ids of the commands in the order run sent their result
    config            \* Gateway.config: its security section

pipeVars == <<command_tx, is_shutting_down, run_pc, chan, cur, calls, arrived,
              dequeued, answered, config>>

VARIABLES
    transform_modules, \* Transformer.transform_modules: HashMap<String, Box<dyn TransformModule>>
    transform_call,    \* the last Transformer::transform call: <<>> or <<[message, rule, res]>>
    outgoing,          \* what a codec was given to put on the wire: <<>>, or
                       \* <<an EthernetIpPacket>>, or <<a CommonMessage>> given to format
    built,             \* the Mil1553Message that Mil1553Handler::format built: <<>> or <<msg>>
    wire,              \* the bytes on the wire: <<>> or <<bytes>>
    parsed,            \* what the codec's parse returned for the wire: <<>> or <<res>>
    normalized         \* to_common_format of the parsed message: <<>> or <<CommonMessage>>

unitVars == <<transform_modules, transform_call, outgoing, built, wire, parsed, normalized>>

VARIABLES
    stamped,           \* the last two messages given ids: <<>> or
                       \* <<[protocol, first, second, first_id, second_id]>>
    threads,           \* the threads that call one KeyManager: for each thread where
                       \* it is (pc) and the bytes it serialized (data), the calls
                       \* made so far (calls); and, to tell snapshots apart, how
                       \* many times the map was changed (version), the count each
                       \* thread serialized at (seen) and that of the file (written)
    main               \* main: where it is (pc), the configuration file it finds
                       \* (file: <<>> or <<Config>>), the configuration it loaded
                       \* (config), the task it spawned (task) and what it
                       \* returned (ret)

lateVars == <<stamped, threads, main>>

vars == <<routerVars, secVars, pipeVars, unitVars, lateVars>>

(***************************************************************************)
(* Bounds of the model.                                                    *)
(***************************************************************************)
MaxRules == 2        \* rules held by a router
MaxFilterKeys == 2   \* entries of a rule's filter map
MaxDays == 2         \* days the wall clock advances
NumKeyValues == 2    \* distinct values the random generator gives a key
NumNonces == 2       \* distinct values the random generator gives a nonce
MaxOps == 3          \* calls made on a key store
MaxCalls == 3        \* calls of process_message and shutdown made on a gateway
QueueSize == 2       \* general.queue_size, the capacity of the command channel

(***************************************************************************)
(* Shared types (protocols/mod.rs, security/mod.rs, config/mod.rs).        *)
(***************************************************************************)
ProtocolType == {"MilStd1553", "EthernetIp"}

SecurityMode == {"None", "Signed", "Encrypted", "EncryptedAndSigned"}

None == <<>>
Some(v) == <<v>>

CommonMessage(src, tgt, prio, pay, sa, da, isc, rr) ==
    [source_protocol |-> src, target_protocol |-> tgt, priority |-> prio,
     payload |-> pay,
     metadata |-> [source_address |-> sa, destination_address |-> da,
                   timestamp |-> 12345, message_id |-> 67890,
                   is_command |-> isc, requires_response |-> rr]]

TranslationRule(n, src, tgt, prio, flt, tr, mode) ==
    [name |-> n, source |-> src, target |-> tgt, priority |-> prio,
     filter |-> flt, transform |-> tr, security_mode |-> mode]

(***************************************************************************)
(* str::parse::<u8>() and str::parse::<bool>() of the Rust standard        *)
(* library, as used by matches_filter and apply_field_map.  u8 accepts an  *)
(* optional leading '+', then one or more decimal digits, value <= 255.    *)
(* bool accepts exactly "true" and "false".                                *)
(***************************************************************************)
U8Max == 255

DigitValue(c) ==
    CASE c = "0" -> 0 [] c = "1" -> 1 [] c = "2" -> 2 [] c = "3" -> 3
      [] c = "4" -> 4 [] c = "5" -> 5 [] c = "6" -> 6 [] c = "7" -> 7
      [] c = "8" -> 8 [] c = "9" -> 9 [] OTHER -> 10

RECURSIVE DigitsValue(_)
DigitsValue(ds) ==
    IF ds = <<>> THEN 0
    ELSE 10 * DigitsValue(SubSeq(ds, 1, Len(ds) - 1)) + DigitValue(ds[Len(ds)])

ParseU8(s) ==
    LET ds == IF s # <<>> /\ s[1] = "+" THEN Tail(s) ELSE s
    IN  IF ds = <<>> \/ \E i \in 1..Len(ds) : DigitValue(ds[i]) = 10
        THEN None
        ELSE IF DigitsValue(ds) > U8Max THEN None ELSE Some(DigitsValue(ds))

ParseBool(s) ==
    IF s = <<"t", "r", "u", "e">> THEN Some(TRUE)
    ELSE IF s = <<"f", "a", "l", "s", "e">> THEN Some(FALSE)
    ELSE None

(***************************************************************************)
(* Router (gateway/router.rs).                                             *)
(***************************************************************************)
ExactKey(rule) == <<rule.source, Some(rule.target)>>
WildcardKey(rule) == <<rule.source, None>>

\* rule_map.entry(key).or_insert_with(Vec::new).push(idx)
PushIdx(map, key, idx) ==
    IF key \in DOMAIN map
    THEN [map EXCEPT ![key] = Append(@, idx)]
    ELSE [k \in DOMAIN map \cup {key} |-> IF k = key THEN <<idx>> ELSE map[k]]

\* the loop over rules.iter().enumerate() of Router::new and rebuild_rule_map
RECURSIVE IndexRules(_, _, _)
IndexRules(rs, i, map) ==
    IF i > Len(rs) THEN map
    ELSE IndexRules(rs, i + 1,
            PushIdx(PushIdx(map, ExactKey(rs[i]), i), WildcardKey(rs[i]), i))

\* indices.sort_by_key(|&idx| rules[idx].priority): a stable sort
InsertByKey(sorted, x, rs) ==
    LET k == Cardinality({j \in 1..Len(sorted) :
                            rs[sorted[j]].priority <= rs[x].priority})
    IN  SubSeq(sorted, 1, k) \o <<x>> \o SubSeq(sorted, k + 1, Len(sorted))

\* a Router::new that leaves the index lists in insertion order
SortByKey_Unsorted(indices, rs) == indices

RECURSIVE SortByKey(_, _)
SortByKey(indices, rs) ==
    IF indices = <<>> THEN <<>>
    ELSE InsertByKey(SortByKey(SubSeq(indices, 1, Len(indices) - 1), rs),
                     indices[Len(indices)], rs)

EmptyMap == [k \in {} |-> <<>>]

SortAll(map, rs) == [k \in DOMAIN map |-> SortByKey(map[k], rs)]

\* Router::new: the rule_map built over a rule list
RouterNew(rs) == SortAll(IndexRules(rs, 1, EmptyMap), rs)

\* a matches_filter that does not compare the addresses
CriterionHolds_NoAddress(key, value, message) ==
    CASE key = "priority" ->
            ParseU8(value) = None \/ message.priority = ParseU8(value)[1]
      [] key = "is_command" ->
            ParseBool(value) = None
                \/ message.metadata.is_command = ParseBool(value)[1]
      [] key = "requires_response" ->
            ParseBool(value) = None
                \/ message.metadata.requires_response = ParseBool(value)[1]
      [] OTHER -> TRUE

\* one criterion of the match in matches_filter
CriterionHolds(key, value, message) ==
    CASE key = "source_address" ->
            ~(value # <<>> /\ message.metadata.source_address # value)
      [] key = "destination_address" ->
            ~(value # <<>> /\ message.metadata.destination_address # value)
      [] key = "priority" ->
            ParseU8(value) = None \/ message.priority = ParseU8(value)[1]
      [] key = "is_command" ->
            ParseBool(value) = None
                \/ message.metadata.is_command = ParseBool(value)[1]
      [] key = "requires_response" ->
            ParseBool(value) = None
                \/ message.metadata.requires_response = ParseBool(value)[1]
      [] OTHER -> TRUE

matches_filter(message, rule) ==
    IF DOMAIN rule.filter = {} THEN TRUE
    ELSE \A key \in DOMAIN rule.filter :
            CriterionHolds(key, rule.filter[key], message)

\* a loop that returns the first index of the entry without looking at the filter
FirstMatch_AnyRule(map, key, message, rs) ==
    IF key \notin DOMAIN map \/ map[key] = <<>> THEN 0 ELSE map[key][1]

\* the for loop over a rule_map entry: the first index whose rule matches, 0 if none
FirstMatch(map, key, message, rs) ==
    IF key \notin DOMAIN map THEN 0
    ELSE LET hits == {j \in 1..Len(map[key]) : matches_filter(message, rs[map[key][j]])}
         IN  IF hits = {} THEN 0
             ELSE map[key][CHOOSE j \in hits : \A h \in hits : j <= h]

RouteOk(idx) == [ok |-> TRUE, err |-> "", idx |-> idx]
RouteErr(e) == [ok |-> FALSE, err |-> e, idx |-> 0]

\* a find_rule without the same-protocol rejection
find_rule_NoSelfCheck(rs, map, message) ==
    LET exact == IF message.target_protocol # None
                 THEN FirstMatch(map, <<message.source_protocol,
                                        message.target_protocol>>, message, rs)
                 ELSE 0
        wild == FirstMatch(map, <<message.source_protocol, None>>, message, rs)
    IN  IF exact # 0 THEN RouteOk(exact)
        ELSE IF wild # 0 THEN RouteOk(wild)
        ELSE RouteErr("NoRoute")

\* a find_rule without the wildcard fallback
find_rule_NoWildcard(rs, map, message) ==
    IF message.target_protocol # None
        /\ message.target_protocol[1] = message.source_protocol
    THEN RouteErr("InvalidRoute")
    ELSE LET exact == IF message.target_protocol # None
                      THEN FirstMatch(map, <<message.source_protocol,
                                             message.target_protocol>>, message, rs)
                      ELSE 0
         IN  IF exact # 0 THEN RouteOk(exact) ELSE RouteErr("NoRoute")

find_rule(rs, map, message) ==
    IF message.target_protocol # None
        /\ message.target_protocol[1] = message.source_protocol
    THEN RouteErr("InvalidRoute")
    ELSE LET exact == IF message.target_protocol # None
                      THEN FirstMatch(map, <<message.source_protocol,
                                             message.target_protocol>>, message, rs)
                      ELSE 0
             wild == FirstMatch(map, <<message.source_protocol, None>>, message, rs)
         IN  IF exact # 0 THEN RouteOk(exact)
             ELSE IF wild # 0 THEN RouteOk(wild)
             ELSE RouteErr("NoRoute")

\* Router::add_rule
add_rule(rs, map, rule) ==
    LET idx == Len(rs) + 1
        rs2 == Append(rs, rule)
        pushed == PushIdx(PushIdx(map, ExactKey(rule), idx), WildcardKey(rule), idx)
    IN  [rules |-> rs2,
         rule_map |-> [k \in DOMAIN pushed |->
                          IF k \in {ExactKey(rule), WildcardKey(rule)}
                          THEN SortByKey(pushed[k], rs2) ELSE pushed[k]]]

\* self.rules.iter().position(|r| r.name == name): 0 when there is none
Position(rs, name) ==
    LET hits == {i \in 1..Len(rs) : rs[i].name = name}
    IN  IF hits = {} THEN 0 ELSE CHOOSE i \in hits : \A h \in hits : i <= h

\* Vec::remove(idx)
RemoveAt(rs, idx) == SubSeq(rs, 1, idx - 1) \o SubSeq(rs, idx + 1, Len(rs))

\* Router::rebuild_rule_map
rebuild_rule_map(rs) == SortAll(IndexRules(rs, 1, EmptyMap), rs)

\* a remove_rule that leaves the rule map as it was
remove_rule_StaleIndex(rs, map, name) ==
    IF Position(rs, name) = 0
    THEN [rules |-> rs, rule_map |-> map, ret |-> "RuleNotFound"]
    ELSE [rules |-> RemoveAt(rs, Position(rs, name)), rule_map |-> map, ret |-> "Ok"]

\* Router::remove_rule
remove_rule(rs, map, name) ==
    IF Position(rs, name) = 0
    THEN [rules |-> rs, rule_map |-> map, ret |-> "RuleNotFound"]
    ELSE [rules |-> RemoveAt(rs, Position(rs, name)),
          rule_map |-> rebuild_rule_map(RemoveAt(rs, Position(rs, name))),
          ret |-> "Ok"]

(***************************************************************************)
(* Byte strings.  A Vec<u8> that only travels (a plaintext, a ciphertext)  *)
(* is a record: enc = FALSE for plain bytes pt, enc = TRUE for the AEAD    *)
(* ciphertext of pt under key and nonce (the 16-byte tag included).  Key   *)
(* material, nonces and signatures carry their length in bytes, which the  *)
(* code checks, and a value standing for their content.                    *)
(***************************************************************************)
Plain(b) == [enc |-> FALSE, pt |-> b, key |-> 0, nonce |-> 0]

Bytes(len, val) == [len |-> len, val |-> val]

EmptyBytes == Bytes(0, 0)

CHACHA_KEY_SIZE == 32
NONCE_SIZE == 12
SIGNATURE_SIZE == 64
ED25519_PUBLIC_KEY_SIZE == 32
ED25519_PRIVATE_KEY_SIZE == 32

Ok(v) == [ok |-> TRUE, err |-> "", val |-> v]
Err(e, dflt) == [ok |-> FALSE, err |-> e, val |-> dflt]

NoSignature == [len |-> 0, msg |-> Plain(<<>>), seed |-> 0]

\* VerifyingKey::from(&signing_key): the public key of a seed (one-to-one; its
\* values are kept apart from those of seeds and encryption keys)
PublicKeyOf(seed) == seed + 100

(***************************************************************************)
(* Crypto primitives (security/crypto.rs): ChaCha20-Poly1305 and Ed25519   *)
(* as ideal primitives.  The random nonce is a parameter.                  *)
(***************************************************************************)
encrypt_message(plaintext, key, nonce_val) ==
    IF key.len # CHACHA_KEY_SIZE
    THEN Err("EncryptionFailed", <<Plain(<<>>), EmptyBytes>>)
    ELSE Ok(<<[enc |-> TRUE, pt |-> plaintext.pt, key |-> key.val, nonce |-> nonce_val],
              Bytes(NONCE_SIZE, nonce_val)>>)

decrypt_message(ciphertext, nonce_bytes, key) ==
    IF key.len # CHACHA_KEY_SIZE THEN Err("DecryptionFailed", Plain(<<>>))
    ELSE IF nonce_bytes.len # NONCE_SIZE THEN Err("DecryptionFailed", Plain(<<>>))
    ELSE IF /\ ciphertext.enc
            /\ ciphertext.key = key.val
            /\ ciphertext.nonce = nonce_bytes.val
         THEN Ok(Plain(ciphertext.pt))
         ELSE Err("DecryptionFailed", Plain(<<>>))

sign_message(message, private_key) ==
    IF private_key.len # ED25519_PRIVATE_KEY_SIZE
    THEN Err("AuthenticationFailed", NoSignature)
    ELSE Ok([len |-> SIGNATURE_SIZE, msg |-> message, seed |-> private_key.val])

verify_signature(message, signature, public_key) ==
    IF signature.len # SIGNATURE_SIZE THEN Err("AuthenticationFailed", FALSE)
    ELSE IF public_key.len # ED25519_PUBLIC_KEY_SIZE THEN Err("AuthenticationFailed", FALSE)
    ELSE IF signature.msg = message /\ PublicKeyOf(signature.seed) = public_key.val
         THEN Ok(TRUE)
         ELSE Err("AuthenticationFailed", FALSE)

\* crypto::generate_encryption_key: 32 random bytes
generate_encryption_key_bytes(val) == Bytes(CHACHA_KEY_SIZE, val)

\* a generator whose public key is that of another seed
generate_signing_keypair_Unrelated(seed) ==
    <<Bytes(ED25519_PRIVATE_KEY_SIZE, seed),
      Bytes(ED25519_PUBLIC_KEY_SIZE, PublicKeyOf(seed + 1))>>

\* crypto::generate_signing_keypair: (private key, public key) of a random seed
generate_signing_keypair(seed) ==
    <<Bytes(ED25519_PRIVATE_KEY_SIZE, seed),
      Bytes(ED25519_PUBLIC_KEY_SIZE, PublicKeyOf(seed))>>

(***************************************************************************)
(* Key store (security/key_manager.rs).  KeyMetadata.created_at and        *)
(* .description are written and never read by the store; they are left     *)
(* out of the entries.                                                     *)
(***************************************************************************)
KeyType == {"Encryption", "Signing", "Verification"}

SecondsPerDay == 24 * 60 * 60

KeyEntry(id, key_type, expires_at, key_data) ==
    [metadata |-> [id |-> id, key_type |-> key_type, expires_at |-> expires_at],
     key_data |-> key_data]

EmptyKeys == [k \in {} |-> 0]

\* HashMap::insert
Insert(ks, id, entry) ==
    [k \in DOMAIN ks \cup {id} |-> IF k = id THEN entry ELSE ks[k]]

\* ttl_days.map(|days| now + days * 24 * 60 * 60)
ExpiresAt(t, ttl_days) ==
    IF ttl_days = None THEN None ELSE Some(t + ttl_days[1] * SecondsPerDay)

SigningId(id) == id \o "-signing"
VerifyId(id) == id \o "-verify"

\* HashMap::remove
Remove(ks, id) == [k \in DOMAIN ks \ {id} |-> ks[k]]

\* bincode::serialize of the key map: its entries, each with its id, in the
\* order the map iterates them
RECURSIVE SerializeEntries(_, _)
SerializeEntries(ks, ids) ==
    IF ids = {} THEN <<>>
    ELSE LET id == CHOOSE k \in ids : TRUE
         IN  <<[id |-> id, entry |-> ks[id]]>> \o SerializeEntries(ks, ids \ {id})

serialize(ks) == SerializeEntries(ks, DOMAIN ks)

\* bincode::deserialize of the key map: the entries inserted one by one
RECURSIVE deserialize(_)
deserialize(data) ==
    IF data = <<>> THEN EmptyKeys
    ELSE Insert(deserialize(SubSeq(data, 1, Len(data) - 1)),
                data[Len(data)].id, data[Len(data)].entry)

\* the key map KeyManager::new_persistent loads: empty when the file is absent
new_persistent(file) == IF file = None THEN EmptyKeys ELSE deserialize(file[1])

\* KeyManager::save: whether it succeeded and the file after it.  A store that
\* is not persistent writes nothing; write_ok is whether the file system
\* accepts the write (a refused write leaves the file as it was).
save(is_persistent, file, ks, write_ok) ==
    IF ~is_persistent THEN [ok |-> TRUE, file |-> file]
    ELSE IF write_ok THEN [ok |-> TRUE, file |-> Some(serialize(ks))]
    ELSE [ok |-> FALSE, file |-> file]

\* what a mutating call returns once it has changed the map to ks and saved
Saved(is_persistent, file, ks, write_ok) ==
    LET sv == save(is_persistent, file, ks, write_ok)
    IN  [ok |-> sv.ok, err |-> IF sv.ok THEN "" ELSE "IoError",
         keys |-> ks, file |-> sv.file]

\* what a mutating call returns when it fails before it touches the map
Refused(e, file, ks) == [ok |-> FALSE, err |-> e, keys |-> ks, file |-> file]

\* a write lock that is granted while other threads hold the read lock
WriteLockFree_Always(th) == TRUE

\* self.keys.write() is granted: no thread holds the read lock save takes
WriteLockFree(th) == \A t \in DOMAIN th.pc : th.pc[t] # "serialized"

\* the record of a call kept in last; calls counts the calls made so far
Op(name, id, new_id, key_type, key_data, delete_old, ks, file) ==
    [op |-> name, id |-> id, new_id |-> new_id, key_type |-> key_type,
     key_data |-> key_data, delete_old |-> delete_old, ok |-> TRUE, err |-> "",
     keys |-> ks, file |-> file, calls |-> 0]

NoOp == Op("", "", "", "", EmptyBytes, FALSE, EmptyKeys, None)

\* KeyManager::generate_encryption_key: the key map after the call
generate_encryption_key(ks, t, id, ttl_days, val) ==
    Insert(ks, id, KeyEntry(id, "Encryption", ExpiresAt(t, ttl_days),
                            generate_encryption_key_bytes(val)))

\* KeyManager::generate_keypair: the key map after the call
generate_keypair(ks, t, id, ttl_days, seed) ==
    Insert(Insert(ks, SigningId(id),
                  KeyEntry(SigningId(id), "Signing", ExpiresAt(t, ttl_days),
                           generate_signing_keypair(seed)[1])),
           VerifyId(id),
           KeyEntry(VerifyId(id), "Verification", ExpiresAt(t, ttl_days),
                    generate_signing_keypair(seed)[2]))

\* a getter that returns the key data of an entry of any type
GetKey_AnyType(ks, t, id, key_type) ==
    IF id \notin DOMAIN ks THEN Err("KeyError", EmptyBytes)
    ELSE IF /\ ks[id].metadata.expires_at # None
            /\ t > ks[id].metadata.expires_at[1]
         THEN Err("KeyError", EmptyBytes)
         ELSE Ok(ks[id].key_data)

\* a getter that does not look at expires_at
GetKey_NoExpiry(ks, t, id, key_type) ==
    IF id \notin DOMAIN ks THEN Err("KeyError", EmptyBytes)
    ELSE IF ks[id].metadata.key_type # key_type THEN Err("KeyError", EmptyBytes)
    ELSE Ok(ks[id].key_data)

\* the body shared by get_encryption_key, get_signing_key and get_verification_key
GetKey(ks, t, id, key_type) ==
    IF id \notin DOMAIN ks THEN Err("KeyError", EmptyBytes)
    ELSE IF ks[id].metadata.key_type # key_type THEN Err("KeyError", EmptyBytes)
    ELSE IF /\ ks[id].metadata.expires_at # None
            /\ t > ks[id].metadata.expires_at[1]
         THEN Err("KeyError", EmptyBytes)
         ELSE Ok(ks[id].key_data)

get_encryption_key(ks, t, id) == GetKey(ks, t, id, "Encryption")
get_signing_key(ks, t, id) == GetKey(ks, t, id, "Signing")
get_verification_key(ks, t, id) == GetKey(ks, t, id, "Verification")

\* the key size import_key expects of a key type
ExpectedSize(key_type) ==
    CASE key_type = "Encryption" -> CHACHA_KEY_SIZE
      [] key_type = "Signing" -> ED25519_PRIVATE_KEY_SIZE
      [] key_type = "Verification" -> ED25519_PUBLIC_KEY_SIZE

\* an import that stores key data of any length
import_key_AnyLength(is_persistent, file, ks, t, id, key_type, key_data, ttl_days, write_ok) ==
    Saved(is_persistent, file,
          Insert(ks, id, KeyEntry(id, key_type, ExpiresAt(t, ttl_days), key_data)),
          write_ok)

\* KeyManager::import_key: what it returns, the key map and the file after it
import_key(is_persistent, file, ks, t, id, key_type, key_data, ttl_days, write_ok) ==
    IF key_data.len # ExpectedSize(key_type) THEN Refused("KeyError", file, ks)
    ELSE Saved(is_persistent, file,
               Insert(ks, id, KeyEntry(id, key_type, ExpiresAt(t, ttl_days), key_data)),
               write_ok)

\* KeyManager::delete_key
delete_key(is_persistent, file, ks, id, write_ok) ==
    IF id \notin DOMAIN ks THEN Refused("KeyError", file, ks)
    ELSE Saved(is_persistent, file, Remove(ks, id), write_ok)

\* KeyManager::rotate_encryption_key; w1 and w2 are whether the file system
\* accepts the write of generate_encryption_key and that of delete_key
rotate_encryption_key(is_persistent, file, ks, t, old_id, new_id, ttl_days, delete_old, val, w1, w2) ==
    LET generated == Saved(is_persistent, file,
                           generate_encryption_key(ks, t, new_id, ttl_days, val), w1)
    IN  IF ~generated.ok THEN generated
        ELSE IF delete_old
             THEN delete_key(is_persistent, generated.file, generated.keys, old_id, w2)
             ELSE generated

\* KeyManager::rotate_keypair; the results of the two delete_key calls are
\* dropped, so it returns Ok once the new pair is generated and saved
rotate_keypair(is_persistent, file, ks, t, old_id, new_id, ttl_days, delete_old, seed, w1, w2, w3) ==
    LET generated == Saved(is_persistent, file,
                           generate_keypair(ks, t, new_id, ttl_days, seed), w1)
        d1 == delete_key(is_persistent, generated.file, generated.keys,
                         SigningId(old_id), w2)
        d2 == delete_key(is_persistent, d1.file, d1.keys, VerifyId(old_id), w3)
    IN  IF ~generated.ok THEN generated
        ELSE IF delete_old
             THEN [ok |-> TRUE, err |-> "", keys |-> d2.keys, file |-> d2.file]
             ELSE generated

(***************************************************************************)
(* Security envelope (security/mod.rs).                                    *)
(***************************************************************************)
SecurityHeader(mode, key_id, nonce, signature) ==
    [version |-> 1, mode |-> mode, key_id |-> key_id, nonce |-> nonce,
     signature |-> signature]

SecuredMessage(header, payload) ==
    [header |-> header, payload |-> payload, hmac |-> None]

NoSecured == SecuredMessage(SecurityHeader("None", "", EmptyBytes, None), Plain(<<>>))

\* a secure_message that wraps the plaintext unprotected whatever the mode
secure_message_Unprotected(ks, t, data, mode, key_id, nonce_val) ==
    Ok(SecuredMessage(SecurityHeader(mode, key_id, EmptyBytes, None), data))

\* SecurityService::secure_message; nonce_val is the nonce the generator draws
secure_message(ks, t, data, mode, key_id, nonce_val) ==
    CASE mode = "None" ->
            Ok(SecuredMessage(SecurityHeader(mode, key_id, EmptyBytes, None), data))
      [] mode = "Signed" ->
            LET sk == get_signing_key(ks, t, key_id)
                sig == sign_message(data, sk.val)
            IN  IF ~sk.ok THEN Err(sk.err, NoSecured)
                ELSE IF ~sig.ok THEN Err(sig.err, NoSecured)
                ELSE Ok(SecuredMessage(
                        SecurityHeader(mode, key_id, EmptyBytes, Some(sig.val)), data))
      [] mode = "Encrypted" ->
            LET ek == get_encryption_key(ks, t, key_id)
                ct == encrypt_message(data, ek.val, nonce_val)
            IN  IF ~ek.ok THEN Err(ek.err, NoSecured)
                ELSE IF ~ct.ok THEN Err(ct.err, NoSecured)
                ELSE Ok(SecuredMessage(
                        SecurityHeader(mode, key_id, ct.val[2], None), ct.val[1]))
      [] mode = "EncryptedAndSigned" ->
            LET sk == get_signing_key(ks, t, key_id)
                sig == sign_message(data, sk.val)
                ek == get_encryption_key(ks, t, key_id)
                ct == encrypt_message(data, ek.val, nonce_val)
            IN  IF ~sk.ok THEN Err(sk.err, NoSecured)
                ELSE IF ~sig.ok THEN Err(sig.err, NoSecured)
                ELSE IF ~ek.ok THEN Err(ek.err, NoSecured)
                ELSE IF ~ct.ok THEN Err(ct.err, NoSecured)
                ELSE Ok(SecuredMessage(
                        SecurityHeader(mode, key_id, ct.val[2], Some(sig.val)),
                        ct.val[1]))

\* an extract_message that takes an absent signature for a valid one
extract_message_NoSignatureNeeded(ks, t, sm) ==
    CASE sm.header.mode = "None" -> Ok(sm.payload)
      [] sm.header.mode = "Signed" ->
            LET vk == get_verification_key(ks, t, sm.header.key_id)
            IN  IF sm.header.signature = None THEN Ok(sm.payload)
                ELSE IF ~vk.ok THEN Err(vk.err, Plain(<<>>))
                ELSE IF ~verify_signature(sm.payload, sm.header.signature[1], vk.val).ok
                THEN Err("AuthenticationFailed", Plain(<<>>))
                ELSE Ok(sm.payload)
      [] sm.header.mode = "Encrypted" ->
            LET ek == get_encryption_key(ks, t, sm.header.key_id)
            IN  IF ~ek.ok THEN Err(ek.err, Plain(<<>>))
                ELSE decrypt_message(sm.payload, sm.header.nonce, ek.val)
      [] sm.header.mode = "EncryptedAndSigned" ->
            LET ek == get_encryption_key(ks, t, sm.header.key_id)
                pt == decrypt_message(sm.payload, sm.header.nonce, ek.val)
                vk == get_verification_key(ks, t, sm.header.key_id)
            IN  IF ~ek.ok THEN Err(ek.err, Plain(<<>>))
                ELSE IF ~pt.ok THEN pt
                ELSE IF sm.header.signature = None THEN Ok(pt.val)
                ELSE IF ~vk.ok THEN Err(vk.err, Plain(<<>>))
                ELSE IF ~verify_signature(pt.val, sm.header.signature[1], vk.val).ok
                THEN Err("AuthenticationFailed", Plain(<<>>))
                ELSE Ok(pt.val)

\* SecurityService::extract_message
extract_message(ks, t, sm) ==
    CASE sm.header.mode = "None" -> Ok(sm.payload)
      [] sm.header.mode = "Signed" ->
            LET vk == get_verification_key(ks, t, sm.header.key_id)
            IN  IF sm.header.signature = None
                THEN Err("AuthenticationFailed", Plain(<<>>))
                ELSE IF ~vk.ok THEN Err(vk.err, Plain(<<>>))
                ELSE IF ~verify_signature(sm.payload, sm.header.signature[1], vk.val).ok
                THEN Err("AuthenticationFailed", Plain(<<>>))
                ELSE Ok(sm.payload)
      [] sm.header.mode = "Encrypted" ->
            LET ek == get_encryption_key(ks, t, sm.header.key_id)
            IN  IF ~ek.ok THEN Err(ek.err, Plain(<<>>))
                ELSE decrypt_message(sm.payload, sm.header.nonce, ek.val)
      [] sm.header.mode = "EncryptedAndSigned" ->
            LET ek == get_encryption_key(ks, t, sm.header.key_id)
                pt == decrypt_message(sm.payload, sm.header.nonce, ek.val)
                vk == get_verification_key(ks, t, sm.header.key_id)
            IN  IF ~ek.ok THEN Err(ek.err, Plain(<<>>))
                ELSE IF ~pt.ok THEN pt
                ELSE IF sm.header.signature = None
                THEN Err("AuthenticationFailed", Plain(<<>>))
                ELSE IF ~vk.ok THEN Err(vk.err, Plain(<<>>))
                ELSE IF ~verify_signature(pt.val, sm.header.signature[1], vk.val).ok
                THEN Err("AuthenticationFailed", Plain(<<>>))
                ELSE Ok(pt.val)

(***************************************************************************)
(* Transformer (gateway/transformer.rs).  The registry transform_modules   *)
(* is a function from module names to modules; the one module of the       *)
(* source is HeaderEnrichmentTransform.                                    *)
(***************************************************************************)
NoModules == [k \in {} |-> ""]

\* u8::saturating_add(1)
SaturatingInc(p) == IF p >= U8Max THEN U8Max ELSE p + 1

\* HeaderEnrichmentTransform::transform
HeaderEnrichmentTransform(message) ==
    Ok([message EXCEPT !.priority = SaturatingInc(message.priority)])

\* TransformModule::transform of a registered module: the module of the
\* source, or a module whose transform returns an error, as the trait allows
ApplyModule(module, message) ==
    IF module = "Failing" THEN Err("ModuleError", message)
    ELSE HeaderEnrichmentTransform(message)

\* a field map whose priority entry is not applied
apply_field_map_NoPriority(message, map) == message

\* Transformer::apply_field_map
apply_field_map(message, map) ==
    IF "priority" \in DOMAIN map /\ ParseU8(map["priority"]) # None
    THEN [message EXCEPT !.priority = ParseU8(map["priority"])[1]]
    ELSE message

\* a custom transform that lets the message through when no module is found
apply_custom_transform_PassThrough(modules, message, module_name) ==
    IF module_name \notin DOMAIN modules THEN Ok(message)
    ELSE ApplyModule(modules[module_name], message)

\* Transformer::apply_custom_transform
apply_custom_transform(modules, message, module_name) ==
    IF module_name \notin DOMAIN modules THEN Err("NoTransform", message)
    ELSE ApplyModule(modules[module_name], message)

\* Transformer::register_module: HashMap::insert under the module's name
register_module(modules, name, module) ==
    [k \in DOMAIN modules \cup {name} |-> IF k = name THEN module ELSE modules[k]]

\* a transform that leaves target_protocol as it was
transform_KeepsTarget(modules, message, rule) ==
    IF rule.transform = None THEN Ok(message)
    ELSE CASE rule.transform[1].kind = "FieldMap" ->
                Ok(apply_field_map(message, rule.transform[1].map))
           [] rule.transform[1].kind = "Custom" ->
                apply_custom_transform(modules, message, rule.transform[1].name)
           [] rule.transform[1].kind = "Identity" -> Ok(message)

\* Transformer::transform
transform(modules, message, rule) ==
    LET transformed == [message EXCEPT !.target_protocol = Some(rule.target)]
    IN  IF rule.transform = None THEN Ok(transformed)
        ELSE CASE rule.transform[1].kind = "FieldMap" ->
                    Ok(apply_field_map(transformed, rule.transform[1].map))
               [] rule.transform[1].kind = "Custom" ->
                    apply_custom_transform(modules, transformed, rule.transform[1].name)
               [] rule.transform[1].kind = "Identity" -> Ok(transformed)

(***************************************************************************)
(* Wire bytes (bytes::BufMut, bytes::Buf).  A byte string on the wire is a *)
(* sequence of bytes 0..255; integers are written and read big-endian.  A  *)
(* u32 is the pair of its high and low 16-bit halves.                      *)
(***************************************************************************)
U16Modulus == 65536

U32(high, low) == <<high, low>>

U32Zero == U32(0, 0)
U32Max == U32(U16Modulus - 1, U16Modulus - 1)

put_u16(v) == <<v \div 256, v % 256>>

put_u32(v) == put_u16(v[1]) \o put_u16(v[2])

\* get_u16 and get_u32 of the bytes that start at index at
get_u16(bytes, at) == bytes[at] * 256 + bytes[at + 1]

get_u32(bytes, at) == U32(get_u16(bytes, at), get_u16(bytes, at + 2))

Zeros(n) == [i \in 1..n |-> 0]

(***************************************************************************)
(* Ethernet/IP codec (protocols/ethernet_ip).                              *)
(***************************************************************************)
\* CommandType: the nine named commands, and Custom(value)
Named(kind) == [kind |-> kind, value |-> 0]
CustomCommand(value) == [kind |-> "Custom", value |-> value]

\* a from_u8 that knows no named command
from_u8_AllCustom(value) == CustomCommand(value)

\* CommandType::from_u8
from_u8(value) ==
    CASE value = 99 -> Named("ListIdentity")
      [] value = 100 -> Named("ListServices")
      [] value = 101 -> Named("ListInterfaces")
      [] value = 102 -> Named("RegisterSession")
      [] value = 103 -> Named("UnregisterSession")
      [] value = 111 -> Named("SendRRData")
      [] value = 112 -> Named("SendUnitData")
      [] value = 10 -> Named("DataRequest")
      [] value = 11 -> Named("DataResponse")
      [] OTHER -> CustomCommand(value)

\* CommandType::as_u8
as_u8(command) ==
    CASE command.kind = "ListIdentity" -> 99
      [] command.kind = "ListServices" -> 100
      [] command.kind = "ListInterfaces" -> 101
      [] command.kind = "RegisterSession" -> 102
      [] command.kind = "UnregisterSession" -> 103
      [] command.kind = "SendRRData" -> 111
      [] command.kind = "SendUnitData" -> 112
      [] command.kind = "DataRequest" -> 10
      [] command.kind = "DataResponse" -> 11
      [] command.kind = "Custom" -> command.value

\* EthernetIpPacket::new; the timestamp is not modelled
EthernetIpPacket(command, session_handle, status, sender_context, options, data, source_address, destination_address) ==
    [command |-> command, session_handle |-> session_handle, status |-> status,
     sender_context |-> sender_context, options |-> options, data |-> data,
     source_address |-> source_address, destination_address |-> destination_address]

IP_HEADER_SIZE == 24

\* EthernetIpPacket::to_bytes; the length is cast to u16
EthernetIpPacket_to_bytes(p) ==
    <<as_u8(p.command), 0>>
    \o put_u16((IP_HEADER_SIZE + Len(p.data)) % U16Modulus)
    \o put_u32(p.session_handle)
    \o put_u32(p.status)
    \o p.sender_context
    \o put_u32(p.options)
    \o p.data

ExampleSourceIp == <<"1", "9", "2", ".", "1", "6", "8", ".", "1", ".", "1", "0", "0">>
ExampleDestinationIp == <<"1", "9", "2", ".", "1", "6", "8", ".", "1", ".", "2", "0", "0">>

NoPacket ==
    EthernetIpPacket(CustomCommand(0), U32Zero, U32Zero, Zeros(8), U32Zero, <<>>, <<>>, <<>>)

\* parser::parse_ethernet_ip: a length field that differs from the number of
\* bytes is logged and the parse goes on
parse_ethernet_ip(data) ==
    IF Len(data) < IP_HEADER_SIZE THEN Err("ParseError", NoPacket)
    ELSE Ok(EthernetIpPacket(from_u8(data[1]), get_u32(data, 5), get_u32(data, 9),
                             SubSeq(data, 13, 20), get_u32(data, 21),
                             SubSeq(data, IP_HEADER_SIZE + 1, Len(data)),
                             ExampleSourceIp, ExampleDestinationIp))

(***************************************************************************)
(* MIL-STD-1553 codec (protocols/mil_std_1553).  A Word is its u16 value.  *)
(***************************************************************************)
MessageType == {"BcToRt", "RtToBc", "RtToRt", "ModeCode"}

\* the fields of a command word: (cmd >> 11) & 0x1F, (cmd >> 10) & 0x1,
\* (cmd >> 5) & 0x1F, cmd & 0x1F
RtAddrOf(cmd) == (cmd \div 2048) % 32
TrBitOf(cmd) == (cmd \div 1024) % 2
SubaddressOf(cmd) == (cmd \div 32) % 32
WordCountOf(cmd) == cmd % 32

\* the bitwise or of two unsigned integers
RECURSIVE BitOr(_, _)
BitOr(a, b) ==
    IF a = 0 THEN b
    ELSE IF b = 0 THEN a
    ELSE 2 * BitOr(a \div 2, b \div 2) + (IF a % 2 = 1 \/ b % 2 = 1 THEN 1 ELSE 0)

DigitChar(d) ==
    CASE d = 0 -> "0" [] d = 1 -> "1" [] d = 2 -> "2" [] d = 3 -> "3" [] d = 4 -> "4"
      [] d = 5 -> "5" [] d = 6 -> "6" [] d = 7 -> "7" [] d = 8 -> "8" [] d = 9 -> "9"

\* format!("{}", n) of an unsigned integer
RECURSIVE Decimal(_)
Decimal(n) == IF n < 10 THEN <<DigitChar(n)>> ELSE Decimal(n \div 10) \o <<DigitChar(n % 10)>>

\* the address of the bus controller
BC == <<"B", "C">>

\* format!("RT{}", n)
RtName(n) == <<"R", "T">> \o Decimal(n)

\* str::starts_with("RT") and str::strip_prefix("RT")
StartsWithRT(s) == Len(s) >= 2 /\ s[1] = "R" /\ s[2] = "T"
StripPrefixRT(s) == IF StartsWithRT(s) THEN Some(SubSeq(s, 3, Len(s))) ELSE None

\* Mil1553Message::new; the timestamp is not modelled
Mil1553Message(message_type, command_word, status_word, data_words) ==
    [message_type |-> message_type, command_word |-> command_word,
     status_word |-> status_word, data_words |-> data_words,
     remote_terminal_address |-> RtAddrOf(command_word),
     subaddress |-> SubaddressOf(command_word),
     word_count |-> WordCountOf(command_word)]

NoMil1553Message == Mil1553Message("BcToRt", 0, None, <<>>)

\* the loop of put_u16 over data words
RECURSIVE PutWords(_)
PutWords(words) ==
    IF words = <<>> THEN <<>> ELSE put_u16(words[1]) \o PutWords(Tail(words))

\* Mil1553Message::to_bytes
Mil1553Message_to_bytes(m) ==
    put_u16(m.command_word)
    \o (IF m.status_word # None THEN put_u16(m.status_word[1]) ELSE <<>>)
    \o PutWords(m.data_words)

\* a parser that takes every command word with the T/R bit clear for BcToRt
MessageTypeOf_NoModeCode(cmd) == IF TrBitOf(cmd) = 0 THEN "BcToRt" ELSE "RtToBc"

\* the message type parse_mil_std_1553 derives from the command word
MessageTypeOf(cmd) ==
    IF SubaddressOf(cmd) = 0 THEN "ModeCode"
    ELSE IF TrBitOf(cmd) = 0 THEN "BcToRt"
    ELSE "RtToBc"

\* while bytes.remaining() >= 2 && data_words.len() < 32: the words read
\* from index at on, given the words read so far
RECURSIVE ReadDataWords(_, _, _)
ReadDataWords(bytes, at, words) ==
    IF Len(bytes) - at + 1 >= 2 /\ Len(words) < 32
    THEN ReadDataWords(bytes, at + 2, Append(words, get_u16(bytes, at)))
    ELSE words

\* parser::parse_mil_std_1553
parse_mil_std_1553(data) ==
    IF Len(data) < 2 THEN Err("ParseError", NoMil1553Message)
    ELSE LET command_word == get_u16(data, 1)
             message_type == MessageTypeOf(command_word)
             has_status == Len(data) - 2 >= 2 /\ message_type = "RtToBc"
             status_word == IF has_status THEN Some(get_u16(data, 3)) ELSE None
             data_words == ReadDataWords(data, IF has_status THEN 5 ELSE 3, <<>>)
         IN  Ok(Mil1553Message(message_type, command_word, status_word, data_words))

\* Mil1553Message::to_common_format; timestamp and message_id are not modelled
Mil1553Message_to_common_format(m) ==
    LET source_addr ==
            CASE m.message_type \in {"BcToRt", "ModeCode"} -> BC
              [] m.message_type = "RtToBc" -> RtName(m.remote_terminal_address)
              [] m.message_type = "RtToRt" ->
                    IF m.status_word # None
                    THEN RtName((m.status_word[1] \div 2048) % 32)
                    ELSE <<"U", "N", "K", "N", "O", "W", "N">>
        dest_addr ==
            CASE m.message_type \in {"BcToRt", "ModeCode"} ->
                    RtName(m.remote_terminal_address)
              [] m.message_type = "RtToBc" -> BC
              [] m.message_type = "RtToRt" -> RtName(m.remote_terminal_address)
    IN  CommonMessage("MilStd1553", Some("EthernetIp"), 2, PutWords(m.data_words),
                      source_addr, dest_addr,
                      m.message_type \in {"BcToRt", "ModeCode"},
                      m.message_type # "RtToBc")

\* message.payload.chunks_exact(2) as words, then the odd byte if any with a
\* zero low byte
RECURSIVE PayloadWords(_)
PayloadWords(payload) ==
    IF payload = <<>> THEN <<>>
    ELSE IF Len(payload) = 1 THEN <<payload[1] * 256>>
    ELSE <<payload[1] * 256 + payload[2]>> \o PayloadWords(SubSeq(payload, 3, Len(payload)))

\* the Mil1553Message that Mil1553Handler::format builds; the shift of the
\* RT address stays within 16 bits
FormatMessage(message) ==
    LET stripped == StripPrefixRT(message.metadata.destination_address)
        rt_addr == IF stripped # None /\ ParseU8(stripped[1]) # None
                   THEN ParseU8(stripped[1])[1] ELSE 1
        subaddress == 1
        data_words == PayloadWords(message.payload)
        word_count == IF Len(data_words) < 32 THEN Len(data_words) ELSE 32
        t_r_bit == IF StartsWithRT(message.metadata.source_address) THEN 1 ELSE 0
        command_word ==
            BitOr(BitOr(BitOr((rt_addr * 2048) % U16Modulus, t_r_bit * 1024),
                        subaddress * 32),
                  word_count)
    IN  Mil1553Message(IF t_r_bit = 1 THEN "RtToBc" ELSE "BcToRt",
                       command_word, None, data_words)

\* Mil1553Handler::format
Mil1553Handler_format(message) == Ok(Mil1553Message_to_bytes(FormatMessage(message)))

(***************************************************************************)
(* Message ids (generate_message_id of both codecs).  A u64 is four 16-bit *)
(* limbs, most significant first.                                          *)
(***************************************************************************)
U64(w3, w2, w1, w0) == <<w3, w2, w1, w0>>

\* x as u64 of a u32 and of a u8
U64FromU32(x) == U64(0, 0, x[1], x[2])
U64FromU8(x) == U64(0, 0, 0, x)

\* x << 8, x << 16 and x << 32 in u64 arithmetic: the bits shifted past
\* bit 63 are dropped
Shl8(x) ==
    U64(((x[1] * 256) % U16Modulus) + (x[2] \div 256),
        ((x[2] * 256) % U16Modulus) + (x[3] \div 256),
        ((x[3] * 256) % U16Modulus) + (x[4] \div 256),
        (x[4] * 256) % U16Modulus)
Shl16(x) == U64(x[2], x[3], x[4], 0)
Shl32(x) == U64(x[3], x[4], 0, 0)

\* x | y
Or64(x, y) == [i \in 1..4 |-> BitOr(x[i], y[i])]

\* EthernetIpPacket::generate_message_id; timestamp is self.timestamp
EthernetIpPacket_generate_message_id(timestamp, p) ==
    Or64(Shl32(timestamp), U64FromU32(p.session_handle))

\* Mil1553Message::generate_message_id; timestamp is self.timestamp
Mil1553Message_generate_message_id(timestamp, m) ==
    Or64(Or64(Shl16(timestamp), Shl8(U64FromU8(m.remote_terminal_address))),
         U64FromU8(m.subaddress))

(***************************************************************************)
(* Pipeline (gateway/mod.rs).                                              *)
(***************************************************************************)
\* the key id process_message hands to secure_message
DefaultEncryptionKeyId == "default-encryption"

\* process_message: "Ok" or the error the first failing step returns.  The
\* plaintext is bincode::serialize(&transformed), which stands for itself.
process_message(message, rs, map, modules, ks, t, nonce_val) ==
    LET found == find_rule(rs, map, message)
        rule == rs[found.idx]
        transformed == transform(modules, message, rule)
        sm == secure_message(ks, t, Plain(transformed.val), rule.security_mode,
                             DefaultEncryptionKeyId, nonce_val)
    IN  IF ~found.ok THEN found.err
        ELSE IF ~transformed.ok THEN transformed.err
        ELSE IF ~sm.ok THEN sm.err
        ELSE "Ok"

\* the lifecycle state of the pipeline, from where Gateway::run is
Lifecycle(pc) ==
    CASE pc = "init" -> "Initialized"
      [] pc \in {"recv", "process"} -> "Running"
      [] pc \in {"shutdown", "exit"} -> "ShuttingDown"
      [] pc = "done" -> "Stopped"

\* the secure_message call process_message makes for a message: <<>> when it
\* returns before the call, else the data, the mode and the key id it passes
SecureCall(message, rs, map, modules) ==
    LET found == find_rule(rs, map, message)
        rule == rs[found.idx]
        transformed == transform(modules, message, rule)
    IN  IF ~found.ok \/ ~transformed.ok THEN <<>>
        ELSE <<[data |-> Plain(transformed.val), mode |-> rule.security_mode,
                key_id |-> DefaultEncryptionKeyId]>>

Command(kind, id, message) == [kind |-> kind, id |-> id, message |-> message]

\* a call of Gateway::process_message or Gateway::shutdown: where it is (pc:
\* "send" at tx.send, "wait" at result_rx.await, "returned", or "abandoned" when
\* its future was dropped), what it returned, and its oneshot channel (sink:
\* "open", "full" once a value was sent, "dropped" once result_tx was dropped
\* unsent, "none" when it was never made; sent: the value sent), and the
\* lifecycle state the pipeline was in when the call was made (at)
Call(kind, message, pc, ret, sink, at) ==
    [kind |-> kind, message |-> message, pc |-> pc, ret |-> ret, sink |-> sink,
     sent |-> "", at |-> at]

\* Gateway::process_message with a command sender that is not bound
Submit_NoSenderCheck(tx, message, at) ==
    Call("ProcessMessage", message, "send", "", "open", at)

\* Gateway::process_message up to tx.send: without a sender it returns the
\* not-running error, else it makes its oneshot channel
Submit(tx, message, at) ==
    IF tx
    THEN Call("ProcessMessage", message, "send", "", "open", at)
    ELSE Call("ProcessMessage", message, "returned", "NotRunning", "none", at)

\* a receive that takes the newest command of the channel
recv_Newest(ch) ==
    [cmd |-> ch[Len(ch)], rest |-> SubSeq(ch, 1, Len(ch) - 1)]

\* command_rx.recv() on a channel that holds a command: the oldest one
recv(ch) == [cmd |-> Head(ch), rest |-> Tail(ch)]

\* a loop that answers successes only
SendResult_OnlyOk(cs, id, v) ==
    IF v = "Ok" THEN [cs EXCEPT ![id].sent = v, ![id].sink = "full"] ELSE cs

\* result_tx.send(v) of the loop: the value reaches the sink unless the call
\* was abandoned (the failed send is logged)
SendResult(cs, id, v) ==
    [cs EXCEPT ![id].sent = v,
               ![id].sink = IF cs[id].pc = "abandoned" THEN cs[id].sink ELSE "full"]

\* a Shutdown arm without its break
AfterShutdown_NoBreak == "recv"

\* where the loop goes from its Shutdown arm: the break
AfterShutdown == "exit"

(***************************************************************************)
(* Inputs of the router specifications.                                    *)
(***************************************************************************)
RT1 == <<"R", "T", "1">>
RT2 == <<"R", "T", "2">>
EmptyString == <<>>
StrTrue == <<"t", "r", "u", "e">>
StrFalse == <<"f", "a", "l", "s", "e">>

EmptyFilter == [k \in {} |-> <<>>]
Filter1(k, v) == [x \in {k} |-> v]

Identity == Some([kind |-> "Identity", name |-> "", map |-> EmptyFilter])

\* rules a router is built over and mutated with: every (source, target) pair,
\* the same-protocol pairs included (only Config::validate rejects those)
RuleNameOf(prio) == IF prio = 1 THEN "high-priority" ELSE "low-priority"

RulePool ==
    {TranslationRule(RuleNameOf(p), s, t, p, f, Identity, "None") :
        s \in ProtocolType, t \in ProtocolType, p \in {1, 10},
        f \in {EmptyFilter, Filter1("source_address", RT1)}}

RuleLists(n) == UNION {[1..k -> RulePool] : k \in 0..n}

RouterMessages ==
    {CommonMessage(s, t, 3, <<1, 2, 3, 4>>, sa, BC, TRUE, TRUE) :
        s \in ProtocolType, t \in {None} \cup {Some(p) : p \in ProtocolType},
        sa \in {RT1, RT2}}

\* filters of the filter specification: every map of at most MaxFilterKeys entries
FilterValues(key) ==
    CASE key \in {"source_address", "destination_address"} -> {RT1, RT2, EmptyString}
      [] key = "priority" -> {<<"3">>, <<"+", "3">>, <<"2", "5", "6">>, <<"h", "i">>}
      [] key \in {"is_command", "requires_response"} ->
            {StrTrue, StrFalse, <<"T", "R", "U", "E">>, <<"1">>}
      [] OTHER -> {<<"x">>}

FilterKeys == {"source_address", "destination_address", "priority", "is_command",
               "requires_response", "unknown_key"}

AllFilters ==
    UNION {{f \in [ks -> UNION {FilterValues(k) : k \in ks}] :
                \A k \in ks : f[k] \in FilterValues(k)} :
           ks \in {x \in SUBSET FilterKeys : Cardinality(x) <= MaxFilterKeys}}

FilterMessages ==
    {CommonMessage("MilStd1553", t, p, <<1, 2, 3, 4>>, sa, da, isc, rr) :
        t \in {None, Some("EthernetIp")}, p \in {3, 7}, sa \in {RT1, RT2},
        da \in {RT1, BC}, isc \in BOOLEAN, rr \in BOOLEAN}

(***************************************************************************)
(* The router specifications.  Spec_Router: a router built by Router::new  *)
(* over any rule list, then mutated by add_rule and remove_rule and asked  *)
(* by find_rule.  Spec_Filter: a router over one filtered rule.            *)
(***************************************************************************)
\* KeyManager::new and KeyManager::new_persistent on a path with no file yet
InitKeyStore ==
    /\ keys = EmptyKeys
    /\ persistent \in BOOLEAN
    /\ key_file = None
    /\ now = 0
    /\ secured = <<>>
    /\ extracted = <<>>
    /\ last = NoOp

\* the threads that share one key store
Threads == {"t1", "t2"}

\* no thread has called the key store yet
NoThreads ==
    [pc |-> [t \in Threads |-> "idle"], data |-> [t \in Threads |-> <<>>],
     calls |-> 0, seen |-> [t \in Threads |-> 0], version |-> 0, written |-> 0]

\* a gateway that main does not own
NoMain == [pc |-> "none", file |-> <<>>, config |-> <<>>, task |-> "none", ret |-> ""]

\* Transformer::new, and codecs that have not been called
InitUnits ==
    /\ transform_modules = NoModules
    /\ transform_call = <<>>
    /\ outgoing = <<>>
    /\ built = <<>>
    /\ wire = <<>>
    /\ parsed = <<>>
    /\ normalized = <<>>
    /\ stamped = <<>>
    /\ threads = NoThreads
    /\ main = NoMain

\* the security section of Config::default
DefaultSecurityConfig ==
    [default_encryption_key |-> "default-encryption",
     default_signing_key |-> "default-signing",
     key_rotation_days |-> Some(30)]

\* Gateway::new: command_tx None, the flag false, run not yet called
InitGateway ==
    /\ command_tx = FALSE
    /\ is_shutting_down = FALSE
    /\ run_pc = "init"
    /\ chan = <<>>
    /\ cur = <<>>
    /\ calls = <<>>
    /\ arrived = <<>>
    /\ dequeued = <<>>
    /\ answered = <<>>
    /\ config = DefaultSecurityConfig
    /\ InitUnits

\* the in-memory key store of a gateway that is never run, for the router
\* specifications
IdleKeyStore == InitKeyStore /\ ~persistent /\ InitGateway

InitRouter ==
    /\ rules \in RuleLists(MaxRules)
    /\ rule_map = RouterNew(rules)
    /\ routed = <<>>
    /\ removed = ""
    /\ IdleKeyStore

FindRule(m) ==
    /\ routed' = <<[msg |-> m, res |-> find_rule(rules, rule_map, m)]>>
    /\ removed' = ""
    /\ UNCHANGED <<rules, rule_map>>
    /\ UNCHANGED <<secVars, pipeVars, unitVars, lateVars>>

AddRule(r) ==
    /\ Len(rules) < MaxRules
    /\ rules' = add_rule(rules, rule_map, r).rules
    /\ rule_map' = add_rule(rules, rule_map, r).rule_map
    /\ routed' = <<>>
    /\ removed' = ""
    /\ UNCHANGED <<secVars, pipeVars, unitVars, lateVars>>

RemoveRule(name) ==
    /\ rules' = remove_rule(rules, rule_map, name).rules
    /\ rule_map' = remove_rule(rules, rule_map, name).rule_map
    /\ removed' = remove_rule(rules, rule_map, name).ret
    /\ routed' = <<>>
    /\ UNCHANGED <<secVars, pipeVars, unitVars, lateVars>>

NextRouter ==
    \/ \E m \in RouterMessages : FindRule(m)
    \/ \E r \in RulePool : AddRule(r)
    \/ \E n \in {"high-priority", "low-priority"} : RemoveRule(n)

Spec_Router == InitRouter /\ [][NextRouter]_vars

InitFilter ==
    /\ \E f \in AllFilters :
          rules = <<TranslationRule("filtered", "MilStd1553", "EthernetIp", 5, f,
                                    Identity, "None")>>
    /\ rule_map = RouterNew(rules)
    /\ routed = <<>>
    /\ removed = ""
    /\ IdleKeyStore

\* find_rule takes &self: one call on each router and message decides them all
NextFilter == \E m \in FilterMessages : routed = <<>> /\ FindRule(m)

Spec_Filter == InitFilter /\ [][NextFilter]_vars

(***************************************************************************)
(* The envelope specification, Spec_Envelope: a key store filled by its    *)
(* own generate operations while the clock advances, and a security        *)
(* service that secures a plaintext and extracts what it secured.          *)
(***************************************************************************)
BaseIds == {"default-encryption"}

KeyIds == BaseIds \cup {SigningId(b) : b \in BaseIds} \cup {VerifyId(b) : b \in BaseIds}

TtlDays == {None, Some(1)}

Plaintexts == {Plain(<<>>), Plain(<<1, 2, 3, 4>>)}

\* the router of a gateway without translation rules
IdleRouter ==
    /\ rules = <<>>
    /\ rule_map = RouterNew(rules)
    /\ routed = <<>>
    /\ removed = ""

InitEnvelope == InitKeyStore /\ IdleRouter /\ InitGateway

\* generate_encryption_key on a file system that accepts every write
GenerateEncryptionKey(id, ttl_days, val) ==
    /\ keys' = generate_encryption_key(keys, now, id, ttl_days, val)
    /\ key_file' = save(persistent, key_file, keys', TRUE).file
    /\ UNCHANGED <<persistent, now, secured, extracted, last>>
    /\ UNCHANGED <<routerVars, pipeVars, unitVars, lateVars>>

\* generate_keypair on a file system that accepts every write
GenerateKeypair(id, ttl_days, seed) ==
    /\ keys' = generate_keypair(keys, now, id, ttl_days, seed)
    /\ key_file' = save(persistent, key_file, keys', TRUE).file
    /\ UNCHANGED <<persistent, now, secured, extracted, last>>
    /\ UNCHANGED <<routerVars, pipeVars, unitVars, lateVars>>

\* the wall clock advances by a day
Tick ==
    /\ now < MaxDays * SecondsPerDay
    /\ now' = now + SecondsPerDay
    /\ UNCHANGED <<keys, persistent, key_file, secured, extracted, last>>
    /\ UNCHANGED <<routerVars, pipeVars, unitVars, lateVars>>

SecureMessage(data, mode, key_id, nonce_val) ==
    /\ secured' = <<[data |-> data, mode |-> mode, key_id |-> key_id,
                     res |-> secure_message(keys, now, data, mode, key_id, nonce_val)]>>
    /\ extracted' = <<>>
    /\ UNCHANGED <<keys, persistent, key_file, now, last>>
    /\ UNCHANGED <<routerVars, pipeVars, unitVars, lateVars>>

ExtractMessage ==
    /\ secured # <<>>
    /\ secured[1].res.ok
    /\ extracted' = <<extract_message(keys, now, secured[1].res.val)>>
    /\ UNCHANGED <<keys, persistent, key_file, now, secured, last>>
    /\ UNCHANGED <<routerVars, pipeVars, unitVars, lateVars>>

NextEnvelope ==
    \/ \E id \in BaseIds, ttl \in TtlDays, v \in 1..NumKeyValues :
          GenerateEncryptionKey(id, ttl, v)
    \/ \E id \in BaseIds, ttl \in TtlDays, v \in 1..NumKeyValues :
          GenerateKeypair(id, ttl, v)
    \/ Tick
    \/ \E d \in Plaintexts, mode \in SecurityMode, id \in KeyIds, n \in 1..NumNonces :
          SecureMessage(d, mode, id, n)
    \/ ExtractMessage

Spec_Envelope == InitEnvelope /\ [][NextEnvelope]_vars

(***************************************************************************)
(* The round-trip specification, Spec_RoundTrip: the key store is filled,  *)
(* then one plaintext is secured, then the secured message is extracted    *)
(* over the same key store at the same time.                               *)
(***************************************************************************)
NextRoundTrip ==
    \/ /\ secured = <<>>
       /\ \/ \E id \in BaseIds, ttl \in TtlDays, v \in 1..NumKeyValues :
                GenerateEncryptionKey(id, ttl, v)
          \/ \E id \in BaseIds, ttl \in TtlDays, v \in 1..NumKeyValues :
                GenerateKeypair(id, ttl, v)
          \/ Tick
    \/ /\ secured = <<>>
       /\ \E d \in Plaintexts, mode \in SecurityMode, id \in KeyIds, n \in 1..NumNonces :
             SecureMessage(d, mode, id, n)
    \/ /\ extracted = <<>>
       /\ ExtractMessage

Spec_RoundTrip == InitEnvelope /\ [][NextRoundTrip]_vars

(***************************************************************************)
(* The pipeline specification, Spec_Pipeline: Gateway::run as a task, and  *)
(* producers that hold the gateway's command sender and call               *)
(* Gateway::process_message and Gateway::shutdown, each call a task of     *)
(* its own on the multi-threaded runtime.  run is called once, as main     *)
(* does.                                                                   *)
(***************************************************************************)
Custom(name) == Some([kind |-> "Custom", name |-> name, map |-> EmptyFilter])

\* config.translation_rules of the gateway
PipelineRules ==
    <<TranslationRule("mil-to-ethernet", "MilStd1553", "EthernetIp", 5,
                      Filter1("source_address", RT1), Identity, "None"),
      TranslationRule("mil-custom", "MilStd1553", "EthernetIp", 9,
                      EmptyFilter, Custom("enrich"), "None"),
      TranslationRule("ethernet-to-mil", "EthernetIp", "MilStd1553", 5,
                      Filter1("source_address", RT1), Identity, "Encrypted")>>

\* the messages producers submit
PipelineMessages ==
    {CommonMessage("MilStd1553", Some("EthernetIp"), 2, <<1, 2>>, RT1, BC, TRUE, TRUE),
     CommonMessage("MilStd1553", Some("EthernetIp"), 2, <<1, 2>>, RT2, BC, TRUE, TRUE),
     CommonMessage("MilStd1553", Some("MilStd1553"), 2, <<1, 2>>, RT1, BC, TRUE, TRUE),
     CommonMessage("EthernetIp", Some("MilStd1553"), 1, <<1, 2>>, RT1, BC, TRUE, TRUE),
     CommonMessage("EthernetIp", None, 3, <<1, 2>>, RT2, BC, FALSE, FALSE)}

NoMessage == CommonMessage("MilStd1553", None, 0, <<>>, EmptyString, EmptyString, FALSE, FALSE)

\* the key store Gateway::new makes: empty, or the keyset of an existing key file
LoadedKeys ==
    generate_encryption_key(EmptyKeys, 0, DefaultEncryptionKeyId, None, 1)

InitPipeline ==
    /\ InitGateway
    /\ rules = PipelineRules
    /\ rule_map = RouterNew(rules)
    /\ routed = <<>>
    /\ removed = ""
    /\ \/ keys = EmptyKeys /\ persistent = FALSE /\ key_file = None
       \/ /\ persistent = TRUE
          /\ key_file = Some(serialize(LoadedKeys))
          /\ keys = new_persistent(key_file)
    /\ now = 0
    /\ secured = <<>>
    /\ extracted = <<>>
    /\ last = NoOp

\* Gateway::run up to the loop: the channel is made and command_tx set
GatewayRun ==
    /\ run_pc = "init"
    /\ command_tx' = TRUE
    /\ chan' = <<>>
    /\ run_pc' = "recv"
    /\ UNCHANGED <<is_shutting_down, cur, calls, arrived, dequeued, answered>>
    /\ UNCHANGED <<routerVars, secVars, config, unitVars, lateVars>>

\* a producer calls Gateway::process_message
SubmitMessage(m) ==
    /\ Len(calls) < MaxCalls
    /\ calls' = Append(calls, Submit(command_tx, m, Lifecycle(run_pc)))
    /\ UNCHANGED <<command_tx, is_shutting_down, run_pc, chan, cur, arrived,
                   dequeued, answered>>
    /\ UNCHANGED <<routerVars, secVars, config, unitVars, lateVars>>

\* Gateway::shutdown up to tx.send: without a sender it returns Ok
SubmitShutdown ==
    /\ Len(calls) < MaxCalls
    /\ calls' = Append(calls,
                  IF command_tx
                  THEN Call("Shutdown", NoMessage, "send", "", "open", Lifecycle(run_pc))
                  ELSE Call("Shutdown", NoMessage, "returned", "Ok", "none", Lifecycle(run_pc)))
    /\ UNCHANGED <<command_tx, is_shutting_down, run_pc, chan, cur, arrived,
                   dequeued, answered>>
    /\ UNCHANGED <<routerVars, secVars, config, unitVars, lateVars>>

\* a run that keeps its receiver, and the commands buffered, when it returns
DropReceiver_Kept(ch, cs) == cs

\* command_rx goes out of scope when run returns: the commands still
\* buffered are dropped and their result senders with them
DropReceiver(ch, cs) ==
    [id \in DOMAIN cs |->
        IF \E i \in 1..Len(ch) : ch[i].id = id
        THEN [cs[id] EXCEPT !.sink = "dropped"]
        ELSE cs[id]]

\* tx.send(..).await of a call: an error once the receiver is dropped, else
\* the command is buffered when the channel has room (the call waits otherwise)
Send(id) ==
    /\ calls[id].pc = "send"
    /\ IF run_pc = "done"
       THEN /\ calls' = [calls EXCEPT ![id].pc = "returned",
                                      ![id].ret = "ChannelClosed",
                                      ![id].sink = "dropped"]
            /\ UNCHANGED <<chan, arrived>>
       ELSE /\ Len(chan) < QueueSize
            /\ chan' = Append(chan, Command(calls[id].kind, id, calls[id].message))
            /\ arrived' = Append(arrived, id)
            /\ calls' = [calls EXCEPT ![id].pc = "wait"]
    /\ UNCHANGED <<command_tx, is_shutting_down, run_pc, cur, dequeued, answered>>
    /\ UNCHANGED <<routerVars, secVars, config, unitVars, lateVars>>

\* result_rx.await of a call: the value sent, or an error when result_tx was
\* dropped unsent
Receive(id) ==
    /\ calls[id].pc = "wait"
    /\ calls[id].sink \in {"full", "dropped"}
    /\ calls' = [calls EXCEPT ![id].pc = "returned",
                              ![id].ret = IF calls[id].sink = "full"
                                          THEN calls[id].sent ELSE "RecvFailed"]
    /\ UNCHANGED <<command_tx, is_shutting_down, run_pc, chan, cur, arrived,
                   dequeued, answered>>
    /\ UNCHANGED <<routerVars, secVars, config, unitVars, lateVars>>

\* the caller drops the future of a call that waits for its result
Abandon(id) ==
    /\ calls[id].pc = "wait"
    /\ calls' = [calls EXCEPT ![id].pc = "abandoned"]
    /\ UNCHANGED <<command_tx, is_shutting_down, run_pc, chan, cur, arrived,
                   dequeued, answered>>
    /\ UNCHANGED <<routerVars, secVars, config, unitVars, lateVars>>

\* command_rx.recv().await returning Some(cmd)
Recv ==
    /\ run_pc = "recv"
    /\ chan # <<>>
    /\ cur' = <<recv(chan).cmd>>
    /\ chan' = recv(chan).rest
    /\ dequeued' = Append(dequeued, recv(chan).cmd.id)
    /\ run_pc' = IF recv(chan).cmd.kind = "ProcessMessage" THEN "process" ELSE "shutdown"
    /\ UNCHANGED <<command_tx, is_shutting_down, calls, arrived, answered>>
    /\ UNCHANGED <<routerVars, secVars, config, unitVars, lateVars>>

\* the ProcessMessage arm of the loop
Process(nonce_val) ==
    /\ run_pc = "process"
    /\ calls' = SendResult(calls, cur[1].id,
                    process_message(cur[1].message, rules, rule_map, NoModules,
                                    keys, now, nonce_val))
    /\ answered' = Append(answered, cur[1].id)
    /\ cur' = <<>>
    /\ run_pc' = "recv"
    /\ UNCHANGED <<command_tx, is_shutting_down, chan, arrived, dequeued>>
    /\ UNCHANGED <<routerVars, secVars, config, unitVars, lateVars>>

\* the Shutdown arm of the loop, up to the break
ShutdownCommand ==
    /\ run_pc = "shutdown"
    /\ is_shutting_down' = TRUE
    /\ calls' = SendResult(calls, cur[1].id, "Ok")
    /\ answered' = Append(answered, cur[1].id)
    /\ cur' = <<>>
    /\ run_pc' = AfterShutdown
    /\ UNCHANGED <<command_tx, chan, arrived, dequeued>>
    /\ UNCHANGED <<routerVars, secVars, config, unitVars, lateVars>>

\* run returns: the receiver is dropped, and with it the commands still
\* buffered and their result senders
RunReturns ==
    /\ run_pc = "exit"
    /\ run_pc' = "done"
    /\ chan' = <<>>
    /\ calls' = DropReceiver(chan, calls)
    /\ UNCHANGED <<command_tx, is_shutting_down, cur, arrived, dequeued, answered>>
    /\ UNCHANGED <<routerVars, secVars, config, unitVars, lateVars>>

NextPipeline ==
    \/ GatewayRun
    \/ \E m \in PipelineMessages : SubmitMessage(m)
    \/ SubmitShutdown
    \/ \E id \in DOMAIN calls : Send(id)
    \/ \E id \in DOMAIN calls : Receive(id)
    \/ \E id \in DOMAIN calls : Abandon(id)
    \/ Recv
    \/ \E n \in 1..NumNonces : Process(n)
    \/ ShutdownCommand
    \/ RunReturns

Spec_Pipeline == InitPipeline /\ [][NextPipeline]_vars

(***************************************************************************)
(* The processing specification, Spec_Process: a gateway made by           *)
(* Gateway::new from a configuration, and process_message applied to one   *)
(* message after another.  The configuration names its default keys; the   *)
(* key store is empty or holds the keys the configuration names.           *)
(***************************************************************************)
SecurityConfigs ==
    {[default_encryption_key |-> e, default_signing_key |-> "default-signing",
      key_rotation_days |-> Some(30)] :
        e \in {"default-encryption", "site-encryption"}}

\* the translation rules of Config::default, with either security mode
ConfigRules(mode) ==
    <<TranslationRule("mil-to-ethernet", "MilStd1553", "EthernetIp", 10,
                      EmptyFilter, Identity, mode),
      TranslationRule("ethernet-to-mil", "EthernetIp", "MilStd1553", 10,
                      EmptyFilter, Identity, mode)>>

\* the key store that holds the default keys a configuration names
ConfiguredKeys(cfg) ==
    generate_keypair(
        generate_encryption_key(EmptyKeys, 0, cfg.default_encryption_key, None, 1),
        0, cfg.default_signing_key, None, 1)

InitProcess ==
    /\ command_tx = FALSE
    /\ is_shutting_down = FALSE
    /\ run_pc = "init"
    /\ chan = <<>>
    /\ cur = <<>>
    /\ calls = <<>>
    /\ arrived = <<>>
    /\ dequeued = <<>>
    /\ answered = <<>>
    /\ config \in SecurityConfigs
    /\ InitUnits
    /\ \E mode \in SecurityMode : rules = ConfigRules(mode)
    /\ rule_map = RouterNew(rules)
    /\ routed = <<>>
    /\ removed = ""
    /\ persistent = FALSE
    /\ key_file = None
    /\ keys \in {EmptyKeys, ConfiguredKeys(config)}
    /\ now = 0
    /\ secured = <<>>
    /\ extracted = <<>>
    /\ last = NoOp

\* process_message on a message: the secure_message call it makes is recorded
ProcessMessage(m, nonce_val) ==
    LET call == SecureCall(m, rules, rule_map, NoModules)
    IN  /\ secured' =
              IF call = <<>> THEN <<>>
              ELSE <<[message |-> m, data |-> call[1].data, mode |-> call[1].mode,
                      key_id |-> call[1].key_id,
                      res |-> secure_message(keys, now, call[1].data, call[1].mode,
                                             call[1].key_id, nonce_val),
                      outcome |-> process_message(m, rules, rule_map, NoModules,
                                                  keys, now, nonce_val)]>>
        /\ extracted' = <<>>
        /\ UNCHANGED <<keys, persistent, key_file, now, last>>
        /\ UNCHANGED <<routerVars, pipeVars, unitVars, lateVars>>

NextProcess ==
    \E m \in RouterMessages, n \in 1..NumNonces : ProcessMessage(m, n)

Spec_Process == InitProcess /\ [][NextProcess]_vars

(***************************************************************************)
(* The rotation specification, Spec_Rotation: the pipeline of a gateway    *)
(* whose configuration may set key_rotation_days, over the key store that  *)
(* holds the default keys, while the wall clock advances.  Gateway::run    *)
(* calls setup_key_rotation before its loop; that function starts no task  *)
(* and touches no key, so no step of the pipeline changes the key store.   *)
(* The run task is scheduled whenever it can take a step, and time passes. *)
(***************************************************************************)
RotationConfigs ==
    {[default_encryption_key |-> "default-encryption",
      default_signing_key |-> "default-signing",
      key_rotation_days |-> d] : d \in {None, Some(1)}}

RotationMessages ==
    {CommonMessage("MilStd1553", Some("EthernetIp"), 2, <<1, 2>>, RT1, BC, TRUE, TRUE)}

InitRotation ==
    /\ command_tx = FALSE
    /\ is_shutting_down = FALSE
    /\ run_pc = "init"
    /\ chan = <<>>
    /\ cur = <<>>
    /\ calls = <<>>
    /\ arrived = <<>>
    /\ dequeued = <<>>
    /\ answered = <<>>
    /\ config \in RotationConfigs
    /\ InitUnits
    /\ rules = PipelineRules
    /\ rule_map = RouterNew(rules)
    /\ routed = <<>>
    /\ removed = ""
    /\ persistent = FALSE
    /\ key_file = None
    /\ keys = ConfiguredKeys(config)
    /\ now = 0
    /\ secured = <<>>
    /\ extracted = <<>>
    /\ last = NoOp

NextRotation ==
    \/ GatewayRun
    \/ Tick
    \/ \E m \in RotationMessages : SubmitMessage(m)
    \/ SubmitShutdown
    \/ \E id \in DOMAIN calls : Send(id)
    \/ \E id \in DOMAIN calls : Receive(id)
    \/ \E id \in DOMAIN calls : Abandon(id)
    \/ Recv
    \/ \E n \in 1..NumNonces : Process(n)
    \/ ShutdownCommand
    \/ RunReturns

Spec_Rotation ==
    /\ InitRotation
    /\ [][NextRotation]_vars
    /\ WF_vars(Tick)
    /\ WF_vars(Recv)
    /\ WF_vars(\E n \in 1..NumNonces : Process(n))
    /\ WF_vars(ShutdownCommand)
    /\ WF_vars(RunReturns)

(***************************************************************************)
(* The key store specification, Spec_KeyStore: a key store, in memory or   *)
(* over a storage path, and the calls that change it, each recorded in     *)
(* last; a store over a path may be dropped and constructed again from the *)
(* same path.  The file system may refuse a write.                         *)
(***************************************************************************)
StoreIds == {"enc-v1", "enc-v2"}

AllStoreIds ==
    StoreIds \cup {SigningId(b) : b \in StoreIds} \cup {VerifyId(b) : b \in StoreIds}

\* key data handed to import_key: of the right size, one byte short, one too long
ImportedKeys ==
    {Bytes(CHACHA_KEY_SIZE, 1), Bytes(CHACHA_KEY_SIZE - 1, 1),
     Bytes(CHACHA_KEY_SIZE + 1, 1)}

\* what the file system may answer to one write
WriteOutcomes == IF persistent THEN BOOLEAN ELSE {TRUE}

\* what it may answer to the write of a delete_key that a rotation makes
DeleteWriteOutcomes(delete_old) == IF delete_old THEN WriteOutcomes ELSE {TRUE}

InitStore ==
    /\ InitKeyStore
    /\ IdleRouter
    /\ InitGateway

\* the call has returned r: the store and the file are as it left them
Returned(r, op) ==
    /\ last.calls < MaxOps
    /\ keys' = r.keys
    /\ key_file' = r.file
    /\ last' = [op EXCEPT !.ok = r.ok, !.err = r.err, !.calls = last.calls + 1]
    /\ UNCHANGED <<persistent, now, secured, extracted>>
    /\ UNCHANGED <<routerVars, pipeVars, unitVars, lateVars>>

CallGenerateEncryptionKey(id, val, w) ==
    Returned(Saved(persistent, key_file,
                   generate_encryption_key(keys, now, id, None, val), w),
             Op("generate_encryption_key", id, id, "Encryption", EmptyBytes, FALSE,
                keys, key_file))

CallGenerateKeypair(id, seed, w) ==
    Returned(Saved(persistent, key_file,
                   generate_keypair(keys, now, id, None, seed), w),
             Op("generate_keypair", id, id, "Signing", EmptyBytes, FALSE, keys,
                key_file))

CallImportKey(id, key_type, key_data, w) ==
    Returned(import_key(persistent, key_file, keys, now, id, key_type, key_data,
                        None, w),
             Op("import_key", id, id, key_type, key_data, FALSE, keys, key_file))

CallDeleteKey(id, w) ==
    Returned(delete_key(persistent, key_file, keys, id, w),
             Op("delete_key", id, id, "", EmptyBytes, FALSE, keys, key_file))

CallRotateEncryptionKey(old_id, new_id, delete_old, val, w1, w2) ==
    Returned(rotate_encryption_key(persistent, key_file, keys, now, old_id, new_id,
                                   None, delete_old, val, w1, w2),
             Op("rotate_encryption_key", old_id, new_id, "Encryption", EmptyBytes,
                delete_old, keys, key_file))

CallRotateKeypair(old_id, new_id, delete_old, seed, w1, w2, w3) ==
    Returned(rotate_keypair(persistent, key_file, keys, now, old_id, new_id, None,
                            delete_old, seed, w1, w2, w3),
             Op("rotate_keypair", old_id, new_id, "Signing", EmptyBytes, delete_old,
                keys, key_file))

\* the store is dropped and KeyManager::new_persistent is called on its path
Reopen ==
    /\ persistent
    /\ Returned([ok |-> TRUE, err |-> "", keys |-> new_persistent(key_file),
                 file |-> key_file],
                Op("new_persistent", "", "", "", EmptyBytes, FALSE, keys, key_file))

NextStore ==
    \/ \E id \in StoreIds, v \in 1..NumKeyValues, w \in WriteOutcomes :
          CallGenerateEncryptionKey(id, v, w)
    \/ \E id \in StoreIds, v \in 1..NumKeyValues, w \in WriteOutcomes :
          CallGenerateKeypair(id, v, w)
    \/ \E id \in StoreIds, kt \in KeyType, kd \in ImportedKeys, w \in WriteOutcomes :
          CallImportKey(id, kt, kd, w)
    \/ \E id \in AllStoreIds, w \in WriteOutcomes : CallDeleteKey(id, w)
    \/ \E old_id \in StoreIds, new_id \in StoreIds, d \in BOOLEAN,
          v \in 1..NumKeyValues, w1 \in WriteOutcomes :
          \E w2 \in DeleteWriteOutcomes(d) :
             CallRotateEncryptionKey(old_id, new_id, d, v, w1, w2)
    \/ \E old_id \in StoreIds, new_id \in StoreIds, d \in BOOLEAN,
          v \in 1..NumKeyValues, w1 \in WriteOutcomes :
          \E w2 \in DeleteWriteOutcomes(d), w3 \in DeleteWriteOutcomes(d) :
             CallRotateKeypair(old_id, new_id, d, v, w1, w2, w3)
    \/ Reopen

Spec_KeyStore == InitStore /\ [][NextStore]_vars

(***************************************************************************)
(* The received-message specification, Spec_Received: the key store is     *)
(* filled while the clock advances, and then extract_message is applied    *)
(* to a SecuredMessage that arrives from outside, whose header and payload *)
(* the sender chose: any mode, key id and nonce, a signature or none,      *)
(* plain bytes or a ciphertext made under some key.                        *)
(***************************************************************************)
ReceivedNonces == {EmptyBytes, Bytes(NONCE_SIZE, 1)}

ReceivedSignatures ==
    {None} \cup {Some(sign_message(d, Bytes(ED25519_PRIVATE_KEY_SIZE, 1)).val) :
                   d \in Plaintexts}

ReceivedPayloads ==
    Plaintexts \cup
    {[enc |-> TRUE, pt |-> d.pt, key |-> v, nonce |-> 1] :
        d \in Plaintexts, v \in 1..NumKeyValues}

ReceivedMessages ==
    {SecuredMessage(SecurityHeader(mode, key_id, nonce, signature), payload) :
        mode \in SecurityMode, key_id \in KeyIds, nonce \in ReceivedNonces,
        signature \in ReceivedSignatures, payload \in ReceivedPayloads}

\* extract_message of a message that arrived; secured keeps the message
ExtractReceived(sm) ==
    /\ secured' = <<[data |-> sm.payload, mode |-> sm.header.mode,
                     key_id |-> sm.header.key_id, res |-> Ok(sm)]>>
    /\ extracted' = <<extract_message(keys, now, sm)>>
    /\ UNCHANGED <<keys, persistent, key_file, now, last>>
    /\ UNCHANGED <<routerVars, pipeVars, unitVars, lateVars>>

InitReceived == InitEnvelope /\ ~persistent

NextReceived ==
    \/ /\ extracted = <<>>
       /\ \/ \E id \in BaseIds, ttl \in TtlDays, v \in 1..NumKeyValues :
                GenerateEncryptionKey(id, ttl, v)
          \/ \E id \in BaseIds, ttl \in TtlDays, v \in 1..NumKeyValues :
                GenerateKeypair(id, ttl, v)
          \/ Tick
    \/ /\ extracted = <<>>
       /\ \E sm \in ReceivedMessages : ExtractReceived(sm)

Spec_Received == InitReceived /\ [][NextReceived]_vars

(***************************************************************************)
(* The transformer specification, Spec_Transform: modules are registered   *)
(* on a Transformer and transform is called on messages and rules of every *)
(* transform type.                                                         *)
(***************************************************************************)
FieldMap(map) == Some([kind |-> "FieldMap", name |-> "", map |-> map])

ModuleNames == {"enrich", "test-enrichment"}

Modules == {"HeaderEnrichmentTransform", "Failing"}

\* field maps: none, a priority entry that parses or does not, an unknown key
PriorityEntries == {<<"1", "0">>, <<"+", "7">>, <<"2", "5", "6">>, <<"h", "i">>, <<>>}

FieldMaps ==
    {EmptyFilter, Filter1("unknown_key", <<"1", "0">>)}
    \cup {Filter1("priority", v) : v \in PriorityEntries}
    \cup {[k \in {"priority", "unknown_key"} |->
              IF k = "priority" THEN v ELSE <<"9">>] : v \in PriorityEntries}

TransformTypes ==
    {None, Identity} \cup {FieldMap(m) : m \in FieldMaps}
    \cup {Custom(n) : n \in ModuleNames}

TransformRules ==
    {TranslationRule("test-rule", "MilStd1553", t, 5, EmptyFilter, tr, "EncryptedAndSigned") :
        t \in ProtocolType, tr \in TransformTypes}

TransformMessages ==
    {CommonMessage("MilStd1553", t, p, <<1, 2, 3, 4>>, RT1, BC, TRUE, TRUE) :
        t \in {None, Some("EthernetIp"), Some("MilStd1553")}, p \in {3, U8Max}}

InitTransform == InitEnvelope /\ ~persistent

RegisterModule(name, module) ==
    /\ transform_modules' = register_module(transform_modules, name, module)
    /\ UNCHANGED <<transform_call, outgoing, built, wire, parsed, normalized>>
    /\ UNCHANGED <<routerVars, secVars, pipeVars, lateVars>>

\* Transformer::transform; transform_call keeps the arguments, the registry
\* of the call and the result
Transform(message, rule) ==
    /\ transform_call' = <<[message |-> message, rule |-> rule,
                            modules |-> transform_modules,
                            res |-> transform(transform_modules, message, rule)]>>
    /\ UNCHANGED <<transform_modules, outgoing, built, wire, parsed, normalized>>
    /\ UNCHANGED <<routerVars, secVars, pipeVars, lateVars>>

NextTransform ==
    \/ \E name \in ModuleNames, module \in Modules : RegisterModule(name, module)
    \/ \E message \in TransformMessages, rule \in TransformRules :
          Transform(message, rule)

Spec_Transform == InitTransform /\ [][NextTransform]_vars

(***************************************************************************)
(* The Ethernet/IP codec specification, Spec_EthernetIp: a packet is       *)
(* written with to_bytes, or a frame arrives from the network, and the     *)
(* bytes on the wire are parsed.                                           *)
(***************************************************************************)
CommandTypes ==
    {Named(k) : k \in {"ListIdentity", "ListServices", "ListInterfaces",
                       "RegisterSession", "UnregisterSession", "SendRRData",
                       "SendUnitData", "DataRequest", "DataResponse"}}
    \cup {CustomCommand(v) : v \in 0..U8Max}

\* 0x01020304, the session handle EthernetIpHandler::format uses
ExampleSession == U32(258, 772)

SenderContexts == {Zeros(8), <<1, 2, 3, 4, 5, 6, 7, 8>>}

\* the shortest payload whose length the 16-bit length field cannot hold
LongPayload == Zeros(U16Modulus - IP_HEADER_SIZE)

IpPayloads == {<<>>, <<222, 173, 190, 239>>}

IpPackets ==
    {EthernetIpPacket(c, s, st, ctx, o, d, ExampleSourceIp, ExampleDestinationIp) :
        c \in CommandTypes, s \in {U32Zero, ExampleSession, U32Max},
        st \in {U32Zero, U32(0, 1)}, ctx \in SenderContexts, o \in {U32Zero, U32Max},
        d \in IpPayloads}
    \cup {EthernetIpPacket(Named("SendRRData"), ExampleSession, U32Zero, Zeros(8),
                           U32Zero, LongPayload, ExampleSourceIp, ExampleDestinationIp)}

\* frames from the network: too short for a header, and a whole frame whose
\* length field does not match
IpFrames ==
    {<<>>, Zeros(IP_HEADER_SIZE - 1),
     <<111, 0, 0, 10>> \o Zeros(20) \o <<222, 173>>}

InitCodec == InitEnvelope /\ ~persistent

\* EthernetIpPacket::to_bytes of a packet, onto an idle wire
ToBytes(p) ==
    /\ wire = <<>>
    /\ outgoing' = <<p>>
    /\ wire' = <<EthernetIpPacket_to_bytes(p)>>
    /\ UNCHANGED <<transform_modules, transform_call, built, parsed, normalized>>
    /\ UNCHANGED <<routerVars, secVars, pipeVars, lateVars>>

\* a frame arrives on an idle wire
ReceiveFrame(bytes) ==
    /\ wire = <<>>
    /\ wire' = <<bytes>>
    /\ UNCHANGED <<transform_modules, transform_call, outgoing, built, parsed, normalized>>
    /\ UNCHANGED <<routerVars, secVars, pipeVars, lateVars>>

\* EthernetIpHandler::parse of the bytes on the wire
ParseFrame ==
    /\ wire # <<>>
    /\ parsed = <<>>
    /\ parsed' = <<parse_ethernet_ip(wire[1])>>
    /\ UNCHANGED <<transform_modules, transform_call, outgoing, built, wire, normalized>>
    /\ UNCHANGED <<routerVars, secVars, pipeVars, lateVars>>

NextEthernetIp ==
    \/ /\ wire = <<>>
       /\ \E p \in IpPackets : ToBytes(p)
    \/ /\ wire = <<>>
       /\ \E bytes \in IpFrames : ReceiveFrame(bytes)
    \/ ParseFrame

Spec_EthernetIp == InitCodec /\ [][NextEthernetIp]_vars

(***************************************************************************)
(* The MIL-STD-1553 codec specification, Spec_Mil1553: bytes arrive from   *)
(* the bus, or a CommonMessage is formatted onto it, and the bytes on the  *)
(* wire are parsed and normalized.                                         *)
(***************************************************************************)
\* command words: RT 0, 5 and 31, both T/R bits, subaddress 0 (mode code),
\* 2 and 31, word counts 0 and 3
CommandWords ==
    {rt * 2048 + tr * 1024 + sa * 32 + wc :
        rt \in {0, 5, 31}, tr \in {0, 1}, sa \in {0, 2, 31}, wc \in {0, 3}}

\* the bytes i, i+1, .., i+n-1 modulo 256
Ramp(i, n) == [k \in 1..n |-> (i + k - 1) % 256]

MaxDataWords == 32

\* what follows the command word: nothing, an odd byte, one to two words
\* and a half, and one and two words more than a message holds
BusTails ==
    {Ramp(18, n) : n \in 0..5} \cup {Ramp(1, 2 * n) : n \in {MaxDataWords + 1, MaxDataWords + 2}}

BusInputs ==
    {<<>>, <<40>>} \cup {put_u16(cmd) \o tail : cmd \in CommandWords, tail \in BusTails}

BusAddresses == {BC, RtName(0), RT1, RtName(5), RtName(31)}

BusPayloads ==
    {<<>>, <<1, 2>>, <<1, 2, 3>>, <<222, 173, 190, 239>>,
     Ramp(1, 2 * MaxDataWords), Ramp(1, 2 * MaxDataWords + 2)}

BusMessages ==
    {CommonMessage("EthernetIp", Some("MilStd1553"), 3, pay, sa, da, isc, TRUE) :
        pay \in BusPayloads, sa \in BusAddresses, da \in BusAddresses, isc \in BOOLEAN}

\* bytes arrive on an idle bus
ReceiveBus(bytes) ==
    /\ wire = <<>>
    /\ wire' = <<bytes>>
    /\ UNCHANGED <<transform_modules, transform_call, outgoing, built, parsed, normalized>>
    /\ UNCHANGED <<routerVars, secVars, pipeVars, lateVars>>

\* Mil1553Handler::format of a CommonMessage, onto an idle bus
Format(message) ==
    /\ wire = <<>>
    /\ outgoing' = <<message>>
    /\ built' = <<FormatMessage(message)>>
    /\ wire' = <<Mil1553Handler_format(message).val>>
    /\ UNCHANGED <<transform_modules, transform_call, parsed, normalized>>
    /\ UNCHANGED <<routerVars, secVars, pipeVars, lateVars>>

\* Mil1553Handler::parse of the bytes on the bus
ParseBus ==
    /\ wire # <<>>
    /\ parsed = <<>>
    /\ parsed' = <<parse_mil_std_1553(wire[1])>>
    /\ UNCHANGED <<transform_modules, transform_call, outgoing, built, wire, normalized>>
    /\ UNCHANGED <<routerVars, secVars, pipeVars, lateVars>>

\* Message::to_common_format of the parsed message
ToCommonFormat ==
    /\ parsed # <<>>
    /\ parsed[1].ok
    /\ normalized = <<>>
    /\ normalized' = <<Mil1553Message_to_common_format(parsed[1].val)>>
    /\ UNCHANGED <<transform_modules, transform_call, outgoing, built, wire, parsed>>
    /\ UNCHANGED <<routerVars, secVars, pipeVars, lateVars>>

NextMil1553 ==
    \/ /\ wire = <<>>
       /\ \E bytes \in BusInputs : ReceiveBus(bytes)
    \/ /\ wire = <<>>
       /\ \E message \in BusMessages : Format(message)
    \/ ParseBus
    \/ ToCommonFormat

Spec_Mil1553 == InitCodec /\ [][NextMil1553]_vars

(***************************************************************************)
(* The message id specification, Spec_MessageId: two messages of one       *)
(* protocol are stamped and given their ids.                               *)
(***************************************************************************)
\* millisecond timestamps: 0, 1, 2^16, 2^32, 2^32 + 1, a date of 2024
\* (0x018C_DEAD_BEEF), that date 2^32 ms later, 2^48 and u64::MAX
Timestamps ==
    {U64(0, 0, 0, 0), U64(0, 0, 0, 1), U64(0, 0, 1, 0), U64(0, 1, 0, 0), U64(0, 1, 0, 1),
     U64(0, 396, 57005, 48879), U64(0, 397, 57005, 48879), U64(1, 0, 0, 0),
     U64(U16Modulus - 1, U16Modulus - 1, U16Modulus - 1, U16Modulus - 1)}

SessionHandles == {U32Zero, U32(0, 1), ExampleSession, U32Max}

StampedPackets ==
    {[timestamp |-> t,
      message |-> EthernetIpPacket(Named("SendUnitData"), s, U32Zero, Zeros(8), U32Zero,
                                   <<>>, ExampleSourceIp, ExampleDestinationIp)] :
        t \in Timestamps, s \in SessionHandles}

StampedLegacy ==
    {[timestamp |-> t, message |-> Mil1553Message(MessageTypeOf(cmd), cmd, None, <<>>)] :
        t \in Timestamps,
        cmd \in {rt * 2048 + sa * 32 : rt \in {0, 1, 31}, sa \in {0, 1, 31}}}

\* to_common_format of two IP packets: the ids it generates
StampPackets(p, q) ==
    /\ UNCHANGED <<threads, main>>
    /\ stamped' = <<[protocol |-> "EthernetIp", first |-> p, second |-> q,
                     first_id |-> EthernetIpPacket_generate_message_id(p.timestamp, p.message),
                     second_id |-> EthernetIpPacket_generate_message_id(q.timestamp, q.message)]>>
    /\ UNCHANGED <<routerVars, secVars, pipeVars, unitVars>>

\* to_common_format of two legacy messages: the ids it generates
StampLegacy(p, q) ==
    /\ UNCHANGED <<threads, main>>
    /\ stamped' = <<[protocol |-> "MilStd1553", first |-> p, second |-> q,
                     first_id |-> Mil1553Message_generate_message_id(p.timestamp, p.message),
                     second_id |-> Mil1553Message_generate_message_id(q.timestamp, q.message)]>>
    /\ UNCHANGED <<routerVars, secVars, pipeVars, unitVars>>

NextMessageId ==
    \/ /\ stamped = <<>>
       /\ \E p \in StampedPackets, q \in StampedPackets : StampPackets(p, q)
    \/ /\ stamped = <<>>
       /\ \E p \in StampedLegacy, q \in StampedLegacy : StampLegacy(p, q)

Spec_MessageId == InitCodec /\ [][NextMessageId]_vars

(***************************************************************************)
(* The shared key store specification, Spec_SharedStore: several threads   *)
(* call generate_encryption_key and delete_key on one persistent           *)
(* KeyManager.  A call changes the map under the write lock and drops it;  *)
(* save then takes the read lock, serializes the map, writes the file and  *)
(* drops the read lock when it returns.  The file system accepts every     *)
(* write, and a write replaces the file in one step.                       *)
(***************************************************************************)
\* the part of a call made under the write lock has changed the map to ks
Updated(t, ks) ==
    /\ threads.pc[t] = "idle"
    /\ threads.calls < MaxOps
    /\ WriteLockFree(threads)
    /\ keys' = ks
    /\ threads' = [threads EXCEPT !.pc[t] = "updated", !.version = @ + 1,
                                  !.calls = @ + 1]
    /\ UNCHANGED <<persistent, key_file, now, secured, extracted, last, stamped, main>>
    /\ UNCHANGED <<routerVars, pipeVars, unitVars>>

\* generate_encryption_key up to drop(keys)
ThreadGenerates(t, id, val) ==
    Updated(t, generate_encryption_key(keys, now, id, None, val))

\* delete_key of a stored id up to drop(keys)
ThreadDeletes(t, id) ==
    /\ id \in DOMAIN keys
    /\ Updated(t, Remove(keys, id))

\* delete_key of an unknown id: it returns the key error under the write lock
ThreadDeleteFails(t, id) ==
    /\ threads.pc[t] = "idle"
    /\ threads.calls < MaxOps
    /\ WriteLockFree(threads)
    /\ id \notin DOMAIN keys
    /\ threads' = [threads EXCEPT !.calls = @ + 1]
    /\ UNCHANGED <<secVars, stamped, main>>
    /\ UNCHANGED <<routerVars, pipeVars, unitVars>>

\* save: self.keys.read() and bincode::serialize(&*keys)
ThreadSerializes(t) ==
    /\ threads.pc[t] = "updated"
    /\ threads' = [threads EXCEPT !.pc[t] = "serialized", !.data[t] = serialize(keys),
                                  !.seen[t] = threads.version]
    /\ UNCHANGED <<secVars, stamped, main>>
    /\ UNCHANGED <<routerVars, pipeVars, unitVars>>

\* save: fs::write(path, data), then the read lock is dropped and the call returns
ThreadWrites(t) ==
    /\ threads.pc[t] = "serialized"
    /\ key_file' = Some(threads.data[t])
    /\ threads' = [threads EXCEPT !.pc[t] = "idle", !.written = threads.seen[t]]
    /\ UNCHANGED <<keys, persistent, now, secured, extracted, last, stamped, main>>
    /\ UNCHANGED <<routerVars, pipeVars, unitVars>>

InitSharedStore == InitStore /\ persistent

NextSharedStore ==
    \/ \E t \in Threads, id \in StoreIds, v \in 1..NumKeyValues : ThreadGenerates(t, id, v)
    \/ \E t \in Threads, id \in StoreIds : ThreadDeletes(t, id)
    \/ \E t \in Threads, id \in StoreIds : ThreadDeleteFails(t, id)
    \/ \E t \in Threads : ThreadSerializes(t)
    \/ \E t \in Threads : ThreadWrites(t)

Spec_SharedStore == InitSharedStore /\ [][NextSharedStore]_vars

(***************************************************************************)
(* The submitters specification, Spec_Submitters: the pipeline of          *)
(* Spec_Pipeline over an empty key store, with the pipeline task and the   *)
(* callers that wait scheduled fairly.                                     *)
(***************************************************************************)
\* the message the submitters send
SubmitterMessages ==
    {CommonMessage("MilStd1553", Some("EthernetIp"), 2, <<1, 2>>, RT1, BC, TRUE, TRUE)}

InitSubmitters == InitPipeline /\ ~persistent

NextSubmitters ==
    \/ GatewayRun
    \/ \E m \in SubmitterMessages : SubmitMessage(m)
    \/ SubmitShutdown
    \/ \E id \in DOMAIN calls : Send(id)
    \/ \E id \in DOMAIN calls : Receive(id)
    \/ \E id \in DOMAIN calls : Abandon(id)
    \/ Recv
    \/ Process(1)
    \/ ShutdownCommand
    \/ RunReturns

Spec_Submitters ==
    /\ InitSubmitters
    /\ [][NextSubmitters]_vars
    /\ WF_vars(Recv)
    /\ WF_vars(Process(1))
    /\ WF_vars(ShutdownCommand)
    /\ WF_vars(RunReturns)
    /\ \A id \in 1..MaxCalls :
          /\ WF_vars(id \in DOMAIN calls /\ Send(id))
          /\ WF_vars(id \in DOMAIN calls /\ Receive(id))

(***************************************************************************)
(* The entry point specification, Spec_Main: main loads the configuration, *)
(* makes the gateway, spawns a task that calls Gateway::run, waits for     *)
(* Ctrl+C and then for the task.  The gateway is moved into the task, so   *)
(* nothing outside it holds the gateway or its command sender: no          *)
(* process_message or shutdown call is made, the command channel stays     *)
(* empty and command_rx.recv() of the loop stays pending (run keeps a      *)
(* sender of its own, so recv never yields None).                          *)
(***************************************************************************)
DefaultQueueSize == 1000
DefaultPort == 44818
MaxRemoteTerminal == 31

Config(queue_size, enc, sign, rts, port, rs) ==
    [general |-> [queue_size |-> queue_size],
     security |-> [default_encryption_key |-> enc, default_signing_key |-> sign,
                   key_rotation_days |-> Some(30)],
     protocols |-> [mil_std_1553 |-> [remote_terminals |-> rts],
                    ethernet_ip |-> [port |-> port]],
     translation_rules |-> rs]

\* Config::default
ConfigDefault ==
    Config(DefaultQueueSize, "default-encryption", "default-signing",
           <<1, 2, 3, 4, 5>>, DefaultPort, ConfigRules("EncryptedAndSigned"))

\* Config::validate: the checks in the order of the code, the first that
\* fails giving the error
validate(cfg) ==
    IF cfg.security.default_encryption_key = ""
    THEN Err("EncryptionKeyIdRequired", <<>>)
    ELSE IF cfg.security.default_signing_key = ""
    THEN Err("SigningKeyIdRequired", <<>>)
    ELSE IF \E i \in DOMAIN cfg.protocols.mil_std_1553.remote_terminals :
               cfg.protocols.mil_std_1553.remote_terminals[i] > MaxRemoteTerminal
    THEN Err("InvalidRemoteTerminal", <<>>)
    ELSE IF cfg.protocols.ethernet_ip.port = 0 THEN Err("PortZero", <<>>)
    ELSE LET rs == cfg.translation_rules
             bad == {i \in DOMAIN rs : rs[i].name = "" \/ rs[i].source = rs[i].target}
             first == CHOOSE i \in bad : \A j \in bad : i <= j
         IN  IF bad = {} THEN Ok(<<>>)
             ELSE IF rs[first].name = "" THEN Err("EmptyRuleName", <<>>)
             ELSE Err("SameSourceAndTarget", <<>>)

\* Config::load: the configuration of the file it finds, validated by
\* from_file, or Config::default when there is no file
load(file) ==
    IF file = None THEN Ok(ConfigDefault)
    ELSE IF validate(file[1]).ok THEN Ok(file[1])
    ELSE Err(validate(file[1]).err, ConfigDefault)

\* the translation_rules sections of the configuration files
FileRules ==
    {ConfigRules("EncryptedAndSigned"),
     <<>>,
     <<TranslationRule("", "MilStd1553", "EthernetIp", 5, EmptyFilter, Identity, "None")>>,
     <<TranslationRule("mil-to-ethernet", "MilStd1553", "EthernetIp", 5,
                       EmptyFilter, Identity, "None"),
       TranslationRule("loop", "EthernetIp", "EthernetIp", 5,
                       EmptyFilter, Identity, "None")>>}

\* the configuration files main may find
ConfigFiles ==
    {Config(q, enc, sign, rts, port, rs) :
        q \in {0, 1, DefaultQueueSize},
        enc \in {"", "default-encryption"},
        sign \in {"", "default-signing"},
        rts \in {<<>>, <<1, 2, 3, 4, 5>>, <<1, MaxRemoteTerminal + 1>>},
        port \in {0, DefaultPort},
        rs \in FileRules}

\* the process starts: the configuration file, if any, is what it finds
MainStarts(file) ==
    /\ main.pc = "none"
    /\ main' = [main EXCEPT !.pc = "load", !.file = file]
    /\ UNCHANGED <<stamped, threads>>
    /\ UNCHANGED <<routerVars, secVars, pipeVars, unitVars>>

\* let config = Config::load()?
MainLoads ==
    /\ main.pc = "load"
    /\ main' = IF load(main.file).ok
               THEN [main EXCEPT !.pc = "new", !.config = <<load(main.file).val>>]
               ELSE [main EXCEPT !.pc = "returned", !.ret = load(main.file).err]
    /\ UNCHANGED <<stamped, threads>>
    /\ UNCHANGED <<routerVars, secVars, pipeVars, unitVars>>

\* Gateway::new(config): the key manager of the key file, the router of the
\* configured rules, command_tx None and the flag false
MainNew ==
    /\ main.pc = "new"
    /\ persistent' = TRUE
    /\ keys' = new_persistent(key_file)
    /\ rules' = main.config[1].translation_rules
    /\ rule_map' = RouterNew(main.config[1].translation_rules)
    /\ config' = main.config[1].security
    /\ command_tx' = FALSE
    /\ is_shutting_down' = FALSE
    /\ main' = [main EXCEPT !.pc = "spawn"]
    /\ UNCHANGED <<routed, removed, key_file, now, secured, extracted, last>>
    /\ UNCHANGED <<run_pc, chan, cur, calls, arrived, dequeued, answered>>
    /\ UNCHANGED <<stamped, threads, unitVars>>

\* tokio::spawn of the task that calls gateway.run()
MainSpawns ==
    /\ main.pc = "spawn"
    /\ main' = [main EXCEPT !.pc = "ctrl_c", !.task = "spawned"]
    /\ UNCHANGED <<stamped, threads>>
    /\ UNCHANGED <<routerVars, secVars, pipeVars, unitVars>>

\* the task calls run, and mpsc::channel makes the channel of the
\* configured capacity
TaskRuns ==
    /\ main.task = "spawned"
    /\ main.config[1].general.queue_size > 0
    /\ GatewayRun

\* the task calls run, and mpsc::channel panics on a capacity of 0: the task
\* ends with the panic
TaskPanics ==
    /\ main.task = "spawned"
    /\ run_pc = "init"
    /\ main.config[1].general.queue_size = 0
    /\ main' = [main EXCEPT !.task = "panicked"]
    /\ UNCHANGED <<stamped, threads>>
    /\ UNCHANGED <<routerVars, secVars, pipeVars, unitVars>>

\* signal::ctrl_c().await returns: the signal was received
MainCtrlC ==
    /\ main.pc = "ctrl_c"
    /\ main' = [main EXCEPT !.pc = "join"]
    /\ UNCHANGED <<stamped, threads>>
    /\ UNCHANGED <<routerVars, secVars, pipeVars, unitVars>>

\* the task has ended: run returned or it panicked
TaskEnded == run_pc = "done" \/ main.task = "panicked"

\* gateway_handle.await returns once the task has ended; main returns Ok
MainJoins ==
    /\ main.pc = "join"
    /\ TaskEnded
    /\ main' = [main EXCEPT !.pc = "returned", !.ret = "Ok"]
    /\ UNCHANGED <<stamped, threads>>
    /\ UNCHANGED <<routerVars, secVars, pipeVars, unitVars>>

InitMain ==
    /\ InitGateway
    /\ rules = <<>>
    /\ rule_map = RouterNew(rules)
    /\ routed = <<>>
    /\ removed = ""
    /\ keys = EmptyKeys
    /\ persistent = FALSE
    /\ key_file \in {None, Some(serialize(LoadedKeys))}
    /\ now = 0
    /\ secured = <<>>
    /\ extracted = <<>>
    /\ last = NoOp

NextMain ==
    \/ \E file \in {None} \cup {Some(c) : c \in ConfigFiles} : MainStarts(file)
    \/ MainLoads
    \/ MainNew
    \/ MainSpawns
    \/ TaskRuns
    \/ TaskPanics
    \/ MainCtrlC
    \/ MainJoins

\* the runtime schedules main and the task; when Ctrl+C comes is not its choice
Spec_Main ==
    /\ InitMain
    /\ [][NextMain]_vars
    /\ WF_vars(MainLoads) /\ WF_vars(MainNew) /\ WF_vars(MainSpawns)
    /\ WF_vars(TaskRuns) /\ WF_vars(TaskPanics) /\ WF_vars(MainJoins)

(***************************************************************************)
(* Claims about the router.                                                *)
(***************************************************************************)
IsSelfTranslation(m) ==
    m.target_protocol # None /\ m.target_protocol[1] = m.source_protocol

\* the rules of the router that a message's (source, target) pair selects:
\* those of its source and target, or all those of its source when it names no target
PairRules(m) ==
    {i \in 1..Len(rules) :
        /\ rules[i].source = m.source_protocol
        /\ m.target_protocol # None => rules[i].target = m.target_protocol[1]}

\* C6: whatever rules the router holds, find_rule answers a message whose
\* target_protocol is Some(source_protocol) with an error and selects no rule.
C6_SelfTranslationRejected ==
    \A i \in 1..Len(routed) :
        IsSelfTranslation(routed[i].msg) =>
            /\ ~routed[i].res.ok
            /\ routed[i].res.idx = 0
            /\ routed[i].res.err = "InvalidRoute"

\* a self-translation was asked of a router holding a same-protocol rule whose
\* filter matches it
C6_Witness ==
    /\ routed # <<>>
    /\ IsSelfTranslation(routed[1].msg)
    /\ \E i \in 1..Len(rules) :
          /\ rules[i].source = routed[1].msg.source_protocol
          /\ rules[i].target = routed[1].msg.source_protocol
          /\ DOMAIN rules[i].filter = {}

\* C7: when some rule of the message's (source, target) pair has a matching
\* filter, find_rule returns one of them, of the numerically smallest priority,
\* in whatever order the rules were given to the router.
C7_SmallestPriority ==
    \A i \in 1..Len(routed) :
        LET m == routed[i].msg
            res == routed[i].res
            cands == {j \in PairRules(m) : matches_filter(m, rules[j])}
        IN  (~IsSelfTranslation(m) /\ cands # {}) =>
                /\ res.ok
                /\ res.idx \in cands
                /\ \A j \in cands : rules[res.idx].priority <= rules[j].priority

\* two matching rules of the message's pair, the priority-10 one given first,
\* and the priority-1 one returned
C7_Witness ==
    /\ routed # <<>>
    /\ Len(rules) = 2
    /\ routed[1].msg.target_protocol # None
    /\ PairRules(routed[1].msg) = {1, 2}
    /\ rules[1].priority = 10
    /\ rules[2].priority = 1
    /\ matches_filter(routed[1].msg, rules[1])
    /\ routed[1].res.ok
    /\ routed[1].res.idx = 2

\* C8: for a message that is no self-translation, find_rule returns the
\* no-route error exactly when no rule of the message's source protocol has a
\* matching filter; otherwise it returns a rule, one of the message's
\* (source, Some(target)) pair whenever such a rule matches.
C8_NoRouteIff ==
    \A i \in 1..Len(routed) :
        LET m == routed[i].msg
            res == routed[i].res
            bySource == {j \in 1..Len(rules) :
                            /\ rules[j].source = m.source_protocol
                            /\ matches_filter(m, rules[j])}
            exact == {j \in bySource :
                            /\ m.target_protocol # None
                            /\ rules[j].target = m.target_protocol[1]}
        IN  ~IsSelfTranslation(m) =>
                /\ (~res.ok /\ res.err = "NoRoute") <=> (bySource = {})
                /\ res.ok <=> (bySource # {})
                /\ res.ok => res.idx \in bySource
                /\ exact # {} => res.idx \in exact

\* a message without target routed by the wildcard list
C8_Witness ==
    /\ routed # <<>>
    /\ routed[1].msg.target_protocol = None
    /\ routed[1].res.ok
    /\ rules[routed[1].res.idx].source = routed[1].msg.source_protocol

\* the rule of the filter specification with one filter entry taken out
WithoutKey(rule, key) ==
    [rule EXCEPT !.filter = [k \in DOMAIN rule.filter \ {key} |-> rule.filter[k]]]

\* C9: a rule whose filter gives source_address (destination_address) a
\* non-empty value v routes a message exactly when the message's source
\* (destination) address is v and the other filter entries are satisfied.
C9_AddressFilter ==
    \A i \in 1..Len(routed) :
        LET m == routed[i].msg
            res == routed[i].res
            f == rules[1].filter
        IN  Len(rules) = 1 =>
              /\ ("source_address" \in DOMAIN f /\ f["source_address"] # <<>>) =>
                    (res.ok <=>
                        /\ m.metadata.source_address = f["source_address"]
                        /\ matches_filter(m, WithoutKey(rules[1], "source_address")))
              /\ ("destination_address" \in DOMAIN f /\ f["destination_address"] # <<>>) =>
                    (res.ok <=>
                        /\ m.metadata.destination_address = f["destination_address"]
                        /\ matches_filter(m, WithoutKey(rules[1], "destination_address")))

\* the filter {source_address: "RT1"} (router.rs test_rule_with_filter) refusing
\* a message from RT2
C9_Witness ==
    /\ routed # <<>>
    /\ Len(rules) = 1
    /\ rules[1].filter = Filter1("source_address", RT1)
    /\ routed[1].msg.metadata.source_address = RT2
    /\ ~routed[1].res.ok

\* C10: a rule whose filter has the key priority with value v routes a message
\* only when v parses as the u8 equal to the message's priority, and one with
\* is_command or requires_response only when v parses as the boolean equal to
\* the message's flag, for every value string.
C10_TypedFilter ==
    \A i \in 1..Len(routed) :
        LET m == routed[i].msg
            f == rules[1].filter
        IN  (Len(rules) = 1 /\ routed[i].res.ok) =>
              /\ "priority" \in DOMAIN f => ParseU8(f["priority"]) = Some(m.priority)
              /\ "is_command" \in DOMAIN f =>
                    ParseBool(f["is_command"]) = Some(m.metadata.is_command)
              /\ "requires_response" \in DOMAIN f =>
                    ParseBool(f["requires_response"]) = Some(m.metadata.requires_response)


(***************************************************************************)
(* Claims about the envelope.                                              *)
(***************************************************************************)
\* the key store holds, unexpired, a key of a type the mode uses under key_id
IdNamesKey(mode, key_id) ==
    CASE mode = "None" -> TRUE
      [] mode = "Encrypted" -> get_encryption_key(keys, now, key_id).ok
      [] mode = "Signed" -> get_signing_key(keys, now, key_id).ok
      [] mode = "EncryptedAndSigned" ->
            \/ get_signing_key(keys, now, key_id).ok
            \/ get_encryption_key(keys, now, key_id).ok

\* C1: for every plaintext and every security mode, over a key store filled
\* by generate_encryption_key and generate_keypair and with a key id that
\* names a key of the store fit for the mode, secure_message succeeds and
\* extract_message of its result returns exactly the plaintext.
C1_EnvelopeRoundTrip ==
    (secured # <<>> /\ IdNamesKey(secured[1].mode, secured[1].key_id)) =>
        /\ secured[1].res.ok
        /\ extracted # <<>> => extracted[1] = Ok(secured[1].data)

(***************************************************************************)
(* Claims about the pipeline.                                              *)
(***************************************************************************)
IsPrefix(a, b) == Len(a) <= Len(b) /\ SubSeq(b, 1, Len(a)) = a

Occurrences(seq, x) == Cardinality({i \in 1..Len(seq) : seq[i] = x})

IsProcessMessage(id) == calls[id].kind = "ProcessMessage"

IsShutdown(id) == calls[id].kind = "Shutdown"

ProcessingErrors == {"InvalidRoute", "NoRoute", "NoTransform", "KeyError", "CryptoError"}

\* C2: commands are taken in the order they arrived on the channel, at most
\* one is in flight, and when the processing of a command starts every
\* command that arrived before it has had its outcome sent on its own sink.
C2_StrictFifo ==
    /\ IsPrefix(dequeued, arrived)
    /\ IsPrefix(answered, dequeued)
    /\ Len(dequeued) <= Len(answered) + 1
    /\ (cur # <<>>) <=> (Len(dequeued) = Len(answered) + 1)
    /\ cur # <<>> => cur[1].id = dequeued[Len(dequeued)]
    /\ \A i \in 1..Len(answered) : calls[answered[i]].sent # ""
    /\ \A i \in 1..Len(arrived) : \A j \in 1..Len(arrived) :
          (i < j /\ Occurrences(dequeued, arrived[j]) > 0) =>
              /\ Occurrences(answered, arrived[i]) = 1
              /\ calls[arrived[i]].sent # ""

\* two messages arrived in the order opposite to that of their calls, and both
\* were processed
C2_Witness ==
    /\ Len(answered) >= 2
    /\ arrived[1] = 2 /\ arrived[2] = 1
    /\ IsProcessMessage(1) /\ IsProcessMessage(2)
    /\ calls[1].message # calls[2].message

\* the outcome the loop has for the command in flight
OutcomeInFlight ==
    process_message(cur[1].message, rules, rule_map, NoModules, keys, now, 1)

C3_Outcomes ==
    /\ \A i \in 1..Len(dequeued) :
          IsProcessMessage(dequeued[i]) =>
              \/ cur # <<>> /\ cur[1].id = dequeued[i]
                            /\ Occurrences(answered, dequeued[i]) = 0
              \/ Occurrences(answered, dequeued[i]) = 1
    /\ \A i \in 1..Len(answered) :
          LET c == calls[answered[i]]
          IN  IsProcessMessage(answered[i]) =>
                /\ c.sent \in ProcessingErrors \cup {"Ok"}
                /\ c.sink = "full" \/ c.pc = "abandoned"
                /\ c.pc = "returned" => c.ret = c.sent
    /\ \A i \in 1..Len(arrived) : \A j \in 1..Len(arrived) :
          (/\ i < j
           /\ IsProcessMessage(arrived[i])
           /\ calls[arrived[i]].sent \in ProcessingErrors
           /\ \A k \in 1..(j - 1) : ~IsShutdown(arrived[k])) =>
              \/ Occurrences(dequeued, arrived[j]) = 1
              \/ /\ run_pc \in {"recv", "process"}
                 /\ \E k \in 1..Len(chan) : chan[k].id = arrived[j]

C3_FailingStep ==
    (run_pc = "process" /\ run_pc' # "process") =>
        /\ calls'[cur[1].id].sent = OutcomeInFlight
        /\ run_pc' = "recv"
        /\ chan' = chan
        /\ is_shutting_down' = is_shutting_down
        /\ \A id \in DOMAIN calls : id # cur[1].id => calls'[id] = calls[id]

\* C3: a ProcessMessage whose processing fails has the error of the failing
\* step sent on its own sink and to no other, the loop goes back to receiving
\* with the channel and the shutdown flag as they were, every command behind
\* it that no Shutdown precedes is dequeued or waits in the channel of the
\* running loop, and every dequeued ProcessMessage has exactly one outcome
\* once it is no longer in flight.
C3_ErrorPerMessage == []C3_Outcomes /\ [][C3_FailingStep]_vars

\* a message failed with a key error, its caller got that error, and a
\* message that arrived behind it was processed with success
C3_Witness ==
    \E i \in 1..Len(answered) : \E j \in 1..Len(answered) :
        /\ i < j
        /\ IsProcessMessage(answered[i]) /\ IsProcessMessage(answered[j])
        /\ calls[answered[i]].sent = "KeyError"
        /\ calls[answered[i]].ret = "KeyError"
        /\ calls[answered[j]].ret = "Ok"

C4_Drained ==
    /\ is_shutting_down => run_pc \in {"exit", "done"}
    /\ run_pc \in {"exit", "done"} => is_shutting_down
    /\ \A j \in 1..Len(dequeued) :
          IsShutdown(dequeued[j]) =>
              /\ j = Len(dequeued)
              /\ run_pc \in {"shutdown", "exit", "done"}
              /\ \A i \in 1..(j - 1) :
                    /\ Occurrences(answered, arrived[i]) = 1
                    /\ calls[arrived[i]].sent # ""
              /\ \A i \in (j + 1)..Len(arrived) :
                    /\ Occurrences(dequeued, arrived[i]) = 0
                    /\ calls[arrived[i]].sent = ""
              /\ Occurrences(answered, dequeued[j]) = 1 =>
                    calls[dequeued[j]].sent = "Ok" /\ is_shutting_down

C4_ShutdownStep ==
    /\ is_shutting_down => is_shutting_down'
    /\ (run_pc = "shutdown" /\ run_pc' # "shutdown") =>
          /\ is_shutting_down'
          /\ calls'[cur[1].id].sent = "Ok"
          /\ run_pc' = "exit"

\* C4: the loop that dequeued a Shutdown sets the flag, sends Ok on the sink
\* of that command and leaves the loop; by then every command that arrived
\* before it has its outcome, no command that arrived behind it is ever
\* dequeued or answered, and the flag once set stays set.
C4_ShutdownExits == []C4_Drained /\ [][C4_ShutdownStep]_vars

\* the loop has returned after a Shutdown that arrived between two messages:
\* the first was answered, the second lost its sink unanswered
C4_Witness ==
    /\ run_pc = "done"
    /\ Len(arrived) = 3
    /\ IsProcessMessage(arrived[1]) /\ IsShutdown(arrived[2]) /\ IsProcessMessage(arrived[3])
    /\ calls[arrived[1]].sent # ""
    /\ calls[arrived[2]].ret = "Ok"
    /\ calls[arrived[3]].ret = "RecvFailed"

C5_LifecycleStep ==
    \/ Lifecycle(run_pc') = Lifecycle(run_pc)
    \/ <<Lifecycle(run_pc), Lifecycle(run_pc')>> \in
          {<<"Initialized", "Running">>, <<"Running", "ShuttingDown">>,
           <<"ShuttingDown", "Stopped">>}

C5_NeverProcessed(id) ==
    /\ Occurrences(arrived, id) = 0
    /\ Occurrences(dequeued, id) = 0
    /\ calls[id].sent = ""

C5_Submits ==
    \A id \in DOMAIN calls :
        IsProcessMessage(id) =>
            /\ calls[id].at = "Initialized" =>
                  /\ calls[id].pc = "returned"
                  /\ calls[id].ret = "NotRunning"
                  /\ C5_NeverProcessed(id)
            /\ calls[id].at = "Stopped" =>
                  /\ calls[id].pc \in {"send", "returned"}
                  /\ calls[id].pc = "returned" => calls[id].ret = "ChannelClosed"
                  /\ C5_NeverProcessed(id)

C11_ConfiguredKeyId ==
    secured # <<>> =>
        /\ secured[1].key_id = config.default_encryption_key
        /\ secured[1].mode =
              rules[find_rule(rules, rule_map, secured[1].message).idx].security_mode


\* the key store no longer is the one the gateway started with
Rotated == keys # ConfiguredKeys(config)

\* C12: a pipeline that runs with key_rotation_days configured eventually
\* rotates its default keys, unless it stops running first.
C12_EventuallyRotates ==
    [](config.key_rotation_days # None /\ Lifecycle(run_pc) = "Running"
          => <>(Rotated \/ Lifecycle(run_pc) # "Running"))


(***************************************************************************)
(* Claims about the key store.                                             *)
(***************************************************************************)
\* C13: after a rotation without delete_old that returned Ok on a store
\* holding the old key, for every old_id and new_id, the getter of the old
\* id returns the bytes it returned before, the getter of the new id
\* succeeds, and a message encrypted under old_id before the rotation
\* extracts to its plaintext; likewise for rotate_keypair and the -signing
\* and -verify ids.
C13_RotationKeepsOld ==
    /\ (/\ last.op = "rotate_encryption_key" /\ ~last.delete_old /\ last.ok
        /\ get_encryption_key(last.keys, now, last.id).ok) =>
          /\ get_encryption_key(keys, now, last.id) =
                get_encryption_key(last.keys, now, last.id)
          /\ get_encryption_key(keys, now, last.new_id).ok
          /\ \A d \in Plaintexts : \A n \in 1..NumNonces :
                LET sm == secure_message(last.keys, now, d, "Encrypted", last.id, n)
                IN  sm.ok /\ extract_message(keys, now, sm.val) = Ok(d)
    /\ (/\ last.op = "rotate_keypair" /\ ~last.delete_old /\ last.ok
        /\ get_signing_key(last.keys, now, SigningId(last.id)).ok
        /\ get_verification_key(last.keys, now, VerifyId(last.id)).ok) =>
          /\ get_signing_key(keys, now, SigningId(last.id)) =
                get_signing_key(last.keys, now, SigningId(last.id))
          /\ get_verification_key(keys, now, VerifyId(last.id)) =
                get_verification_key(last.keys, now, VerifyId(last.id))
          /\ get_signing_key(keys, now, SigningId(last.new_id)).ok
          /\ get_verification_key(keys, now, VerifyId(last.new_id)).ok

\* the entries of ks other than those under ids are in the store as they were
OthersKept(ks, ids) ==
    \A id \in DOMAIN ks \ ids : id \in DOMAIN keys /\ keys[id] = ks[id]

\* C14: after a rotation with delete_old that returned Ok, the new id (the
\* new -signing and -verify ids) is retrievable, the old id (the old
\* -signing and -verify ids) is not, and every key under another id is in
\* the store as it was.
C14_RotationDeletesOld ==
    /\ (last.op = "rotate_encryption_key" /\ last.delete_old /\ last.ok) =>
          /\ get_encryption_key(keys, now, last.new_id).ok
          /\ last.id \notin DOMAIN keys
          /\ OthersKept(last.keys, {last.id, last.new_id})
    /\ (last.op = "rotate_keypair" /\ last.delete_old /\ last.ok) =>
          /\ get_signing_key(keys, now, SigningId(last.new_id)).ok
          /\ get_verification_key(keys, now, VerifyId(last.new_id)).ok
          /\ SigningId(last.id) \notin DOMAIN keys
          /\ VerifyId(last.id) \notin DOMAIN keys
          /\ OthersKept(last.keys, {SigningId(last.id), VerifyId(last.id),
                                    SigningId(last.new_id), VerifyId(last.new_id)})


\* the last call was a rotate_encryption_key with delete_old whose new key was
\* generated and saved and whose delete_key of the old id returned an error
EncryptionDeletionFailed ==
    /\ last.op = "rotate_encryption_key" /\ last.delete_old /\ ~last.ok
    /\ \E v \in 1..NumKeyValues : \E w2 \in BOOLEAN :
          LET r == rotate_encryption_key(persistent, last.file, last.keys, now,
                                         last.id, last.new_id, None, TRUE, v, TRUE, w2)
          IN  ~r.ok /\ r.err = last.err /\ r.keys = keys /\ r.file = key_file

\* the last call was a rotate_keypair with delete_old whose new pair was
\* generated and saved and one of whose two delete_key calls returned an error
KeypairDeletionFailed ==
    /\ last.op = "rotate_keypair" /\ last.delete_old /\ last.ok
    /\ \E seed \in 1..NumKeyValues : \E w2, w3 \in BOOLEAN :
          LET generated == Saved(persistent, last.file,
                                 generate_keypair(last.keys, now, last.new_id, None, seed),
                                 TRUE)
              d1 == delete_key(persistent, generated.file, generated.keys,
                               SigningId(last.id), w2)
              d2 == delete_key(persistent, d1.file, d1.keys, VerifyId(last.id), w3)
          IN  /\ ~d1.ok \/ ~d2.ok
              /\ d2.keys = keys /\ d2.file = key_file

\* C15: when the deletion of the old key fails during a rotation with
\* delete_old, the newly generated key is stored and retrievable under the
\* new id once the call has returned: the encryption key after
\* rotate_encryption_key, the signing and verification keys after
\* rotate_keypair.
C15_NewKeyKeptOnFailedDelete ==
    /\ EncryptionDeletionFailed =>
          get_encryption_key(keys, now, last.new_id).ok
    /\ KeypairDeletionFailed =>
          /\ get_signing_key(keys, now, SigningId(last.new_id)).ok
          /\ get_verification_key(keys, now, VerifyId(last.new_id)).ok

\* C16: in every state of the key store, each getter returns the key data
\* of an id exactly when the entry stored under it has the type the getter
\* asks for; for a missing id or an entry of another type it returns the
\* key error and no key data.
C16_TypedGetters ==
    \A id \in AllStoreIds : \A kt \in KeyType :
        LET r == CASE kt = "Encryption" -> get_encryption_key(keys, now, id)
                   [] kt = "Signing" -> get_signing_key(keys, now, id)
                   [] kt = "Verification" -> get_verification_key(keys, now, id)
        IN  IF id \in DOMAIN keys /\ keys[id].metadata.key_type = kt
            THEN r.ok /\ r.val = keys[id].key_data
            ELSE ~r.ok /\ r.err = "KeyError" /\ r.val = EmptyBytes

\* the store holds a signing key where a keypair put it, an imported
\* verification key under a plain id, and lacks another id
C16_Witness ==
    /\ \E b \in StoreIds :
          /\ SigningId(b) \in DOMAIN keys
          /\ keys[SigningId(b)].metadata.key_type = "Signing"
    /\ \E id \in StoreIds :
          id \in DOMAIN keys /\ keys[id].metadata.key_type = "Verification"
    /\ \E id \in AllStoreIds : id \notin DOMAIN keys

\* the getter of KeyManager that asks for key type kt
Getter(kt, ks, t, id) ==
    CASE kt = "Encryption" -> get_encryption_key(ks, t, id)
      [] kt = "Signing" -> get_signing_key(ks, t, id)
      [] kt = "Verification" -> get_verification_key(ks, t, id)

\* C17: as the wall clock advances, a fetch of a stored key whose expires_at
\* is less than the current time fails with the key error under every getter
\* and returns no key data, while a key without expiry, or whose expires_at
\* is the current time or later, is returned by the getter of its type.
C17_ExpiredNeverReturned ==
    \A id \in DOMAIN keys :
        LET md == keys[id].metadata
        IN  IF md.expires_at # None /\ md.expires_at[1] < now
            THEN \A kt \in KeyType :
                    /\ ~Getter(kt, keys, now, id).ok
                    /\ Getter(kt, keys, now, id).err = "KeyError"
                    /\ Getter(kt, keys, now, id).val = EmptyBytes
            ELSE /\ Getter(md.key_type, keys, now, id).ok
                 /\ Getter(md.key_type, keys, now, id).val = keys[id].key_data

\* the clock has advanced past the expiry of one stored key and stands at
\* the expiry of another
C17_Witness ==
    /\ now > 0
    /\ \E id \in DOMAIN keys :
          /\ keys[id].metadata.expires_at # None
          /\ keys[id].metadata.expires_at[1] < now
    /\ \E id \in DOMAIN keys :
          /\ keys[id].metadata.expires_at # None
          /\ keys[id].metadata.expires_at[1] = now

\* C18: once generate_keypair(base, ..) has returned Ok, get_signing_key of
\* base-signing and get_verification_key of base-verify both succeed, and
\* the two keys are counterparts: a signature that sign_message makes with
\* the signing key is accepted by verify_signature under the verification
\* key, for every message.
C18_KeypairCounterparts ==
    (last.op = "generate_keypair" /\ last.ok) =>
        LET sk == get_signing_key(keys, now, SigningId(last.id))
            vk == get_verification_key(keys, now, VerifyId(last.id))
        IN  /\ sk.ok /\ vk.ok
            /\ \A m \in Plaintexts :
                  /\ sign_message(m, sk.val).ok
                  /\ verify_signature(m, sign_message(m, sk.val).val, vk.val).ok

\* generate_keypair has returned Ok on a store that already held a pair
\* under the same base id, made from another seed
C18_Witness ==
    /\ last.op = "generate_keypair" /\ last.ok
    /\ SigningId(last.id) \in DOMAIN last.keys
    /\ last.keys[SigningId(last.id)] # keys[SigningId(last.id)]

\* C19: import_key with key bytes whose length is not the size expected for
\* the declared key type returns the key error and leaves the key map and
\* the persisted file as they were before the call; with the expected length
\* the bytes are stored under the given id with the declared type.
C19_ImportChecksLength ==
    last.op = "import_key" =>
        IF last.key_data.len # ExpectedSize(last.key_type)
        THEN /\ ~last.ok /\ last.err = "KeyError"
             /\ keys = last.keys
             /\ key_file = last.file
        ELSE /\ last.id \in DOMAIN keys
             /\ keys[last.id].metadata.key_type = last.key_type
             /\ keys[last.id].key_data = last.key_data
             /\ Getter(last.key_type, keys, now, last.id).val = last.key_data
             /\ last.ok \/ last.err = "IoError"

\* an import of bytes of the wrong length has returned on a persistent store
\* whose file holds a key
C19_Witness ==
    /\ last.op = "import_key"
    /\ last.key_data.len # ExpectedSize(last.key_type)
    /\ persistent /\ key_file # None
    /\ last.keys # EmptyKeys

\* the operations of KeyManager that change the key map
MutatingOps ==
    {"generate_encryption_key", "generate_keypair", "import_key", "delete_key",
     "rotate_encryption_key", "rotate_keypair"}

\* C20: on a store constructed with a storage path, once a mutating
\* operation has returned Ok the file holds the serialization of the whole
\* key map in memory, so that a store constructed from the same path holds
\* exactly the same keys; and a store constructed while the file is absent
\* is empty.
C20_FileHoldsKeyset ==
    /\ (persistent /\ last.ok /\ last.op \in MutatingOps) =>
          /\ key_file = Some(serialize(keys))
          /\ new_persistent(key_file) = keys
    /\ (last.op = "new_persistent" /\ last.file = None) => keys = EmptyKeys

(***************************************************************************)
(* Claims about received messages.                                         *)
(***************************************************************************)
\* extract_message was applied to a message whose mode requires a signature
\* and whose header has none
SignatureMissing ==
    /\ extracted # <<>>
    /\ secured[1].res.val.header.mode \in {"Signed", "EncryptedAndSigned"}
    /\ secured[1].res.val.header.signature = None

\* C21 as stated: extract_message of a message whose mode is Signed or
\* EncryptedAndSigned and whose signature is absent fails with
\* AuthenticationFailed and returns no plaintext, whatever the key store
\* holds.
C21_MissingSignatureAsStated ==
    SignatureMissing => extracted[1] = Err("AuthenticationFailed", Plain(<<>>))

\* C21: extract_message of a message whose mode is Signed or
\* EncryptedAndSigned and whose signature is absent fails and returns no
\* plaintext, whatever the key store holds.  In mode Signed the error is
\* AuthenticationFailed.  In mode EncryptedAndSigned the payload is decrypted
\* first: the error is KeyError when the key id names no unexpired
\* encryption key, DecryptionFailed when the payload does not decrypt under
\* it, and AuthenticationFailed when the decryption succeeds.
C21_MissingSignature ==
    SignatureMissing =>
        LET sm == secured[1].res.val
            ek == get_encryption_key(keys, now, sm.header.key_id)
        IN  /\ ~extracted[1].ok
            /\ extracted[1].val = Plain(<<>>)
            /\ sm.header.mode = "Signed" => extracted[1].err = "AuthenticationFailed"
            /\ sm.header.mode = "EncryptedAndSigned" =>
                  extracted[1].err =
                      IF ~ek.ok THEN "KeyError"
                      ELSE IF ~decrypt_message(sm.payload, sm.header.nonce, ek.val).ok
                           THEN "DecryptionFailed"
                           ELSE "AuthenticationFailed"

\* an EncryptedAndSigned message without signature whose payload decrypts
\* under the stored key has been refused
C21_Witness ==
    /\ SignatureMissing
    /\ secured[1].res.val.header.mode = "EncryptedAndSigned"
    /\ get_encryption_key(keys, now,
                          secured[1].res.val.header.key_id).ok
    /\ decrypt_message(secured[1].res.val.payload, secured[1].res.val.header.nonce,
                       get_encryption_key(keys, now,
                                          secured[1].res.val.header.key_id).val).ok
    /\ extracted[1].err = "AuthenticationFailed"

(***************************************************************************)
(* Claims about the transformer.                                           *)
(***************************************************************************)
\* the message a transform starts from: a copy of the input that differs
\* from it in target_protocol alone, which is Some(rule.target)
Retargeted(message, rule) ==
    [source_protocol |-> message.source_protocol,
     target_protocol |-> Some(rule.target),
     priority |-> message.priority,
     payload |-> message.payload,
     metadata |-> message.metadata]

\* C22: for every message and every rule whose transform is Identity or
\* absent, transform returns Ok with a message whose target_protocol is
\* Some(rule.target) and whose source_protocol, priority, payload and
\* metadata equal the input's.
C22_IdentityTransform ==
    (transform_call # <<>> /\ transform_call[1].rule.transform \in {None, Identity}) =>
        LET c == transform_call[1]
        IN  /\ c.res.ok
            /\ c.res.val.target_protocol = Some(c.rule.target)
            /\ c.res.val.source_protocol = c.message.source_protocol
            /\ c.res.val.priority = c.message.priority
            /\ c.res.val.payload = c.message.payload
            /\ c.res.val.metadata = c.message.metadata

\* an Identity rule was applied to a message whose target differed from the
\* rule's
C22_Witness ==
    /\ transform_call # <<>>
    /\ transform_call[1].rule.transform = Identity
    /\ transform_call[1].message.target_protocol # Some(transform_call[1].rule.target)
    /\ transform_call[1].res.ok

\* C23: for a rule with a FieldMap transform, transform returns Ok with a
\* message whose priority is the u8 parsed from the map's priority entry
\* when that entry exists and parses, and the input's priority otherwise;
\* target_protocol is Some(rule.target), every other field equals the
\* input's, and keys other than priority have no effect.
C23_FieldMapTransform ==
    (transform_call # <<>> /\ transform_call[1].rule.transform # None
        /\ transform_call[1].rule.transform[1].kind = "FieldMap") =>
        LET c == transform_call[1]
            map == c.rule.transform[1].map
            entry == IF "priority" \in DOMAIN map THEN ParseU8(map["priority"]) ELSE None
            base == Retargeted(c.message, c.rule)
        IN  /\ c.res.ok
            /\ c.res.val = [base EXCEPT !.priority =
                                IF entry # None THEN entry[1] ELSE c.message.priority]

\* a FieldMap with a priority entry that parses, beside an unknown key, was
\* applied to a message of another priority
C23_Witness ==
    /\ transform_call # <<>>
    /\ transform_call[1].rule.transform # None
    /\ transform_call[1].rule.transform[1].kind = "FieldMap"
    /\ DOMAIN transform_call[1].rule.transform[1].map = {"priority", "unknown_key"}
    /\ transform_call[1].res.val.priority = 7
    /\ transform_call[1].message.priority # 7

\* C24: for a rule with transform Custom(name), transform fails with the
\* no-transform error exactly when no module is registered under name; when
\* one is registered, the result of transform is what that module returns
\* for the message that already carries target_protocol = Some(rule.target),
\* its value or its error.
C24_CustomTransform ==
    (transform_call # <<>> /\ transform_call[1].rule.transform # None
        /\ transform_call[1].rule.transform[1].kind = "Custom") =>
        LET c == transform_call[1]
            name == c.rule.transform[1].name
        IN  /\ (~c.res.ok /\ c.res.err = "NoTransform") <=> name \notin DOMAIN c.modules
            /\ name \in DOMAIN c.modules =>
                  c.res = ApplyModule(c.modules[name], Retargeted(c.message, c.rule))

\* with one module registered, a Custom rule naming it was applied to a
\* message whose target differed from the rule's, and the module answered
C24_Witness ==
    /\ transform_call # <<>>
    /\ transform_call[1].rule.transform = Custom("test-enrichment")
    /\ DOMAIN transform_call[1].modules = {"test-enrichment"}
    /\ transform_call[1].message.target_protocol # Some(transform_call[1].rule.target)
    /\ transform_call[1].res.ok
    /\ transform_call[1].res.val.priority = transform_call[1].message.priority + 1

(***************************************************************************)
(* Claims about the Ethernet/IP codec.                                     *)
(***************************************************************************)
\* the packet parsed from the wire has the command, session handle, status,
\* sender context, options and payload of the packet that was written
SamePacket ==
    /\ parsed[1].ok
    /\ parsed[1].val.command = outgoing[1].command
    /\ parsed[1].val.session_handle = outgoing[1].session_handle
    /\ parsed[1].val.status = outgoing[1].status
    /\ parsed[1].val.sender_context = outgoing[1].sender_context
    /\ parsed[1].val.options = outgoing[1].options
    /\ parsed[1].val.data = outgoing[1].data

\* C25 as stated: for every packet p, with any command value including
\* Custom(v) for every byte v, parsing the bytes of to_bytes(p) yields a
\* packet with the same command, session handle, status, sender context,
\* options and payload as p.
C25_RoundTripAsStated ==
    (outgoing # <<>> /\ parsed # <<>>) => SamePacket

\* C25: for every packet p whose command is one of the nine named commands
\* or Custom(v) with v the code of none of them, parsing the bytes of
\* to_bytes(p) yields a packet with the same command, session handle,
\* status, sender context, options and payload as p; for Custom(v) with v
\* the code of a named command the parsed command is that named command and
\* the other five fields are those of p.
C25_RoundTrip ==
    (outgoing # <<>> /\ parsed # <<>>) =>
        IF outgoing[1].command = from_u8(as_u8(outgoing[1].command))
        THEN SamePacket
        ELSE /\ parsed[1].ok
             /\ parsed[1].val.command = from_u8(outgoing[1].command.value)
             /\ parsed[1].val.command.kind # "Custom"
             /\ parsed[1].val = [outgoing[1] EXCEPT !.command = parsed[1].val.command]

\* a packet with command Custom(255), the largest session handle and
\* options, and a payload went through to_bytes and the parser
C25_Witness ==
    /\ outgoing # <<>> /\ parsed # <<>>
    /\ outgoing[1].command = CustomCommand(U8Max)
    /\ outgoing[1].session_handle = U32Max
    /\ outgoing[1].options = U32Max
    /\ outgoing[1].data # <<>>
    /\ parsed[1].ok

\* C26: for every packet, the 16-bit big-endian length field that to_bytes
\* emits equals 24 plus the payload length, which is the number of bytes
\* emitted, for every payload length the packet type admits.
C26_LengthField ==
    (outgoing # <<>> /\ wire # <<>>) =>
        /\ Len(wire[1]) = IP_HEADER_SIZE + Len(outgoing[1].data)
        /\ get_u16(wire[1], 3) = Len(wire[1])

(***************************************************************************)
(* Claims about the MIL-STD-1553 codec.                                    *)
(***************************************************************************)
\* the index in the input of the first data word: after the command word,
\* and after the status word that a TerminalToController input of at least
\* four bytes carries
DataStart(bytes) ==
    IF MessageTypeOf(get_u16(bytes, 1)) = "RtToBc" /\ Len(bytes) >= 4 THEN 5 ELSE 3

\* the number of data words read from the input
DataWordCount(bytes) ==
    LET n == (Len(bytes) - DataStart(bytes) + 1) \div 2
    IN  IF n < 32 THEN n ELSE 32

\* C27: for every input from the bus of at least 2 bytes, parse followed by
\* to_common_format gives kind ModeCode when the subaddress is 0, else
\* ControllerToTerminal (BcToRt) when the T/R bit is 0, else
\* TerminalToController (RtToBc); source BC and destination RT<addr> for the
\* controller-origin kinds, source RT<addr> and destination BC for
\* TerminalToController; is_command exactly for the controller-origin kinds;
\* requires_response exactly when the kind is not TerminalToController;
\* priority 2; and a payload that is the bytes of the data words in order.
\* An input of fewer than 2 bytes is a parse error.
C27_ParseAndNormalize ==
    (outgoing = <<>> /\ wire # <<>> /\ parsed # <<>>) =>
        IF Len(wire[1]) < 2
        THEN ~parsed[1].ok /\ parsed[1].err = "ParseError"
        ELSE LET cmd == wire[1][1] * 256 + wire[1][2]
                 addr == RtName((cmd \div 2048) % 32)
                 kind == IF (cmd \div 32) % 32 = 0 THEN "ModeCode"
                         ELSE IF (cmd \div 1024) % 2 = 0 THEN "BcToRt" ELSE "RtToBc"
             IN  /\ parsed[1].ok
                 /\ parsed[1].val.message_type = kind
                 /\ normalized # <<>> =>
                       LET c == normalized[1]
                       IN  /\ c.metadata.source_address = IF kind = "RtToBc" THEN addr ELSE BC
                           /\ c.metadata.destination_address =
                                  IF kind = "RtToBc" THEN BC ELSE addr
                           /\ c.metadata.is_command = (kind \in {"BcToRt", "ModeCode"})
                           /\ c.metadata.requires_response = (kind # "RtToBc")
                           /\ c.priority = 2
                           /\ c.payload = SubSeq(wire[1], DataStart(wire[1]),
                                                 DataStart(wire[1])
                                                 + 2 * DataWordCount(wire[1]) - 1)

\* a TerminalToController input from RT31 with a status word and one data
\* word was parsed and normalized
C27_Witness ==
    /\ outgoing = <<>> /\ normalized # <<>>
    /\ parsed[1].val.message_type = "RtToBc"
    /\ parsed[1].val.status_word # None
    /\ parsed[1].val.remote_terminal_address = 31
    /\ Len(normalized[1].payload) = 2

\* the CommonMessage has canonical legacy addresses, one side being BC, and
\* an even-length payload of at most 64 bytes
CanonicalLegacy(message) ==
    LET sa == message.metadata.source_address
        da == message.metadata.destination_address
        IsRt(a) == \E n \in 0..31 : a = RtName(n)
    IN  /\ (sa = BC /\ IsRt(da)) \/ (IsRt(sa) /\ da = BC)
        /\ Len(message.payload) % 2 = 0
        /\ Len(message.payload) <= 64

\* C28: for every CommonMessage with canonical legacy addresses and an
\* even-length payload of at most 64 bytes, formatting it with the legacy
\* handler and then parsing and normalizing the bytes yields a message with
\* the same payload, source_address and destination_address.
C28_FormatIsInverse ==
    (outgoing # <<>> /\ normalized # <<>> /\ CanonicalLegacy(outgoing[1])) =>
        /\ normalized[1].payload = outgoing[1].payload
        /\ normalized[1].metadata.source_address = outgoing[1].metadata.source_address
        /\ normalized[1].metadata.destination_address =
              outgoing[1].metadata.destination_address

\* the message has its status word exactly when it is TerminalToController,
\* and at most 32 data words
WellFormedLegacy(m) ==
    /\ (m.status_word # None) <=> (m.message_type = "RtToBc")
    /\ Len(m.data_words) <= 32

\* C30: every Mil1553Message the codec produces, by parsing an input of at
\* least 2 bytes or by building one from a CommonMessage in format, has its
\* status word present if and only if its kind is TerminalToController, and
\* has at most 32 data words.
C30_StatusIffTerminalToController ==
    /\ (parsed # <<>> /\ parsed[1].ok) => WellFormedLegacy(parsed[1].val)
    /\ built # <<>> => WellFormedLegacy(built[1])

(***************************************************************************)
(* Claims about the header of a secured message.                           *)
(***************************************************************************)
\* C29: every SecuredMessage returned by secure_message has header version
\* 1, header mode equal to the requested mode, header key_id equal to the
\* requested key id, hmac absent, a nonce that is empty if and only if the
\* mode is None or Signed and 12 bytes long otherwise, and a signature that
\* is present if and only if the mode is Signed or EncryptedAndSigned; the
\* payload equals the plaintext when the mode does not encrypt.
C29_HeaderInvariants ==
    (secured # <<>> /\ secured[1].res.ok) =>
        LET call == secured[1]
            sm == call.res.val
        IN  /\ sm.header.version = 1
            /\ sm.header.mode = call.mode
            /\ sm.header.key_id = call.key_id
            /\ sm.hmac = None
            /\ (sm.header.nonce = EmptyBytes) <=> (call.mode \in {"None", "Signed"})
            /\ call.mode \notin {"None", "Signed"} => sm.header.nonce.len = NONCE_SIZE
            /\ (sm.header.signature # None) <=> (call.mode \in {"Signed", "EncryptedAndSigned"})
            /\ call.mode \in {"None", "Signed"} => sm.payload = call.data

\* secure_message returned a signed message: a signature and no nonce
C29_Witness ==
    /\ secured # <<>>
    /\ secured[1].res.ok
    /\ secured[1].mode = "Signed"
    /\ secured[1].res.val.header.signature # None

(***************************************************************************)
(* Claims about message ids.                                               *)
(***************************************************************************)
\* the two stamped messages differ in what the id is made of
DifferentIdentity ==
    LET p == stamped[1].first
        q == stamped[1].second
    IN  \/ p.timestamp # q.timestamp
        \/ /\ stamped[1].protocol = "EthernetIp"
           /\ p.message.session_handle # q.message.session_handle
        \/ /\ stamped[1].protocol = "MilStd1553"
           /\ \/ p.message.remote_terminal_address # q.message.remote_terminal_address
              \/ p.message.subaddress # q.message.subaddress

\* C31: within one protocol, message_id is injective in (timestamp,
\* intra-protocol identifier): two IP packets that differ in millisecond
\* timestamp or session handle get different ids, and two legacy messages
\* that differ in timestamp, terminal address or subaddress get different
\* ids, for all 64-bit timestamps with the shifts computed in 64-bit
\* arithmetic.
C31_MessageIdInjective ==
    (stamped # <<>> /\ DifferentIdentity) => stamped[1].first_id # stamped[1].second_id

(***************************************************************************)
(* Claims about the command word that format emits.                        *)
(***************************************************************************)
\* the word-count field that encodes n data words: 32 is encoded as 0
EncodedWordCount(n) == IF n = 32 THEN 0 ELSE n

\* C32: for every CommonMessage formatted by the legacy handler, the 5-bit
\* word-count field of the emitted command word encodes the number of data
\* words that follow it (payload length divided by 2, rounded up, with 32
\* encoded as 0), the subaddress field is 1, and the terminal-address field
\* is n when destination_address is "RT<n>" with 0 <= n <= 31.
C32_CommandWordFields ==
    (outgoing # <<>> /\ built # <<>>) =>
        LET message == outgoing[1]
            cmd == get_u16(wire[1], 1)
            following == (Len(wire[1]) - 2) \div 2
        IN  /\ following = (Len(message.payload) + 1) \div 2
            /\ WordCountOf(cmd) = EncodedWordCount(following)
            /\ SubaddressOf(cmd) = 1
            /\ \A n \in 0..31 :
                  message.metadata.destination_address = RtName(n) => RtAddrOf(cmd) = n

(***************************************************************************)
(* Claims about the rule find_rule returns and about the index.            *)
(***************************************************************************)
\* find_rule returned a rule for the message
RuleReturned == routed # <<>> /\ routed[1].res.ok

\* C33 as stated: whenever find_rule returns a rule for a message, in any
\* router state reachable through Router::new, add_rule and remove_rule, the
\* rule's source equals the message's source_protocol, the rule's filter
\* matches the message, and if the message's target_protocol is Some(t) the
\* rule's target equals t.
C33_RuleFitsMessageAsStated ==
    RuleReturned =>
        LET message == routed[1].msg
            rule == rules[routed[1].res.idx]
        IN  /\ rule.source = message.source_protocol
            /\ matches_filter(message, rule)
            /\ message.target_protocol # None => rule.target = message.target_protocol[1]

\* C33: whenever find_rule returns a rule for a message, the rule's source
\* equals the message's source_protocol and the rule's filter matches the
\* message; if the message's target_protocol is Some(t), the rule's target
\* equals t whenever the router holds a rule from that source to t whose
\* filter matches the message, and otherwise the rule is the one found
\* under the wildcard key, whatever its target.
C33_RuleFitsMessage ==
    RuleReturned =>
        LET message == routed[1].msg
            rule == rules[routed[1].res.idx]
            fitting == {i \in 1..Len(rules) :
                          /\ rules[i].source = message.source_protocol
                          /\ message.target_protocol = Some(rules[i].target)
                          /\ matches_filter(message, rules[i])}
        IN  /\ rule.source = message.source_protocol
            /\ matches_filter(message, rule)
            /\ (message.target_protocol # None /\ fitting # {}) =>
                  rule.target = message.target_protocol[1]
            /\ (message.target_protocol # None /\ fitting = {}) =>
                  routed[1].res.idx =
                      FirstMatch(rule_map, <<message.source_protocol, None>>, message, rules)

\* after an add_rule, a message with a target got a rule to that target
\* although a rule of its source with a smaller priority and another target
\* matched it as well
C33_Witness ==
    /\ RuleReturned
    /\ Len(rules) = 2
    /\ rule_map # RouterNew(<<rules[1]>>)
    /\ routed[1].msg.target_protocol # None
    /\ rules[routed[1].res.idx].target = routed[1].msg.target_protocol[1]
    /\ rules[routed[1].res.idx].filter # EmptyFilter
    /\ \E i \in 1..Len(rules) :
          /\ rules[i].target # routed[1].msg.target_protocol[1]
          /\ rules[i].priority < rules[routed[1].res.idx].priority
          /\ matches_filter(routed[1].msg, rules[i])

\* the index is the one Router::new builds over the rule list
C34_Index ==
    /\ rule_map = RouterNew(rules)
    /\ \A i \in 1..Len(rules) :
          /\ ExactKey(rules[i]) \in DOMAIN rule_map
          /\ WildcardKey(rules[i]) \in DOMAIN rule_map
          /\ Occurrences(rule_map[ExactKey(rules[i])], i) = 1
          /\ Occurrences(rule_map[WildcardKey(rules[i])], i) = 1
    /\ \A k \in DOMAIN rule_map :
          /\ \A j \in 1..Len(rule_map[k]) :
                /\ rule_map[k][j] \in 1..Len(rules)
                /\ rules[rule_map[k][j]].source = k[1]
                /\ k[2] # None => rules[rule_map[k][j]].target = k[2][1]
          /\ \A j \in 1..(Len(rule_map[k]) - 1) :
                rules[rule_map[k][j]].priority <= rules[rule_map[k][j + 1]].priority
    /\ routed # <<>> =>
          routed[1].res = find_rule(rules, RouterNew(rules), routed[1].msg)

\* a remove_rule that fails changes neither the rules nor the index
C34_FailedRemove ==
    removed' = "RuleNotFound" => UNCHANGED <<rules, rule_map>>

\* C34: after any sequence of add_rule and remove_rule calls the router's
\* index is the one Router::new would build over the current rule list:
\* every rule index appears exactly once in its (source, Some(target)) list
\* and once in its (source, None) list, no index is stale or out of range,
\* each list is sorted ascending by priority, and find_rule gives the same
\* answer as a freshly built router for every message; a remove_rule of an
\* unknown name fails and changes nothing.
C34_IndexRebuilt == []C34_Index /\ [][C34_FailedRemove]_vars

\* a remove_rule took the first of two rules away, and the second, now at
\* index 1, is the only entry of its two lists
C34_Witness ==
    /\ removed = "Ok"
    /\ Len(rules) = 1
    /\ rules[1].priority = 10
    /\ rule_map[ExactKey(rules[1])] = <<1>>
    /\ rule_map[WildcardKey(rules[1])] = <<1>>

(***************************************************************************)
(* Claims about what a key-store operation leaves alone.                   *)
(***************************************************************************)
\* the ids a call of the key store names
NamedIds ==
    CASE last.op \in {"generate_encryption_key", "import_key", "delete_key"} -> {last.id}
      [] last.op = "generate_keypair" -> {SigningId(last.id), VerifyId(last.id)}
      [] OTHER -> AllStoreIds \cup StoreIds

\* the entry under id is as it was before the last call
Untouched(id) ==
    /\ (id \in DOMAIN keys) <=> (id \in DOMAIN last.keys)
    /\ id \in DOMAIN keys => keys[id] = last.keys[id]

\* every other entry is as it was, and every entry carries its own id
FrameKept ==
    /\ \A id \in (DOMAIN keys \cup DOMAIN last.keys) \ NamedIds : Untouched(id)
    /\ \A id \in DOMAIN keys : keys[id].metadata.id = id

\* C35: key-store operations touch only the ids they name:
\* generate_encryption_key(id), import_key(id) and delete_key(id) change at
\* most the entry under id, generate_keypair(base) changes at most
\* base-signing and base-verify, a failed delete_key changes nothing,
\* getters and list_keys change nothing, and in every reachable state each
\* entry's metadata.id equals the id it is stored under; in particular no
\* operation changes the type or bytes of a key stored under a different id.
C35_OnlyNamedIds ==
    /\ FrameKept
    /\ (last.op = "delete_key" /\ ~last.ok) => keys = last.keys

(***************************************************************************)
(* Claims about threads that share a key store.                            *)
(***************************************************************************)
\* every call made on the key store has returned
AllReturned == \A t \in Threads : threads.pc[t] = "idle"

\* once all calls have returned the file holds the map
C36_FileIsMap ==
    (AllReturned /\ threads.version > 0) =>
        /\ key_file = Some(serialize(keys))
        /\ threads.written = threads.version

\* a save never replaces the file by an older snapshot
C36_NoOlderSnapshot == threads'.written >= threads.written

\* C36: with several threads calling mutating operations concurrently on
\* one persistent KeyManager (each one updates the map under the write lock,
\* releases it, then saves under a read lock), once all the operations have
\* returned the persisted file equals the in-memory keyset: no save ever
\* overwrites the file with a snapshot older than one already written, under
\* every interleaving.
C36_ConcurrentSaves == []C36_FileIsMap /\ [][C36_NoOlderSnapshot]_vars

\* the threads changed the map three times, two of them saved at the same
\* time, and all calls have returned
C36_Witness ==
    /\ AllReturned
    /\ threads.version = MaxOps
    /\ threads.seen["t1"] = threads.seen["t2"]
    /\ keys # EmptyKeys

(***************************************************************************)
(* Claims about the callers that wait for the pipeline.                    *)
(***************************************************************************)
\* the call is blocked at tx.send, and the call waits at result_rx.await
AtSend(id) == id \in DOMAIN calls /\ calls[id].pc = "send"
Waiting(id) == id \in DOMAIN calls /\ calls[id].pc = "wait"

\* the call has returned, or its caller dropped it
Over(id) == id \in DOMAIN calls /\ calls[id].pc \in {"returned", "abandoned"}

\* what an accepted process_message call returned: the outcome the loop
\* sent when its command was dequeued, an error when it was still queued
\* as the loop exited
C37_Outcome ==
    \A id \in DOMAIN calls :
        (calls[id].kind = "ProcessMessage" /\ calls[id].pc = "returned"
            /\ Occurrences(arrived, id) = 1) =>
            IF Occurrences(answered, id) = 1
            THEN calls[id].ret = calls[id].sent /\ calls[id].ret # ""
            ELSE /\ calls[id].ret = "RecvFailed"
                 /\ run_pc = "done"
                 /\ Occurrences(dequeued, id) = 0

\* C37: no submitter waits forever: every Gateway::process_message call
\* whose command was accepted by the channel eventually returns, with the
\* processing outcome if the command is dequeued before a Shutdown and with
\* an error if it is still queued when the loop exits; likewise a producer
\* blocked on a full channel is eventually released, assuming the pipeline
\* task is scheduled fairly.
C37_NoSubmitterWaitsForever ==
    /\ []C37_Outcome
    /\ \A id \in 1..MaxCalls : Waiting(id) ~> Over(id)
    /\ \A id \in 1..MaxCalls : AtSend(id) ~> ~AtSend(id)

\* a process_message call whose command was still queued when the loop
\* exited has returned the error, and another one its outcome
C37_Witness ==
    \E id \in DOMAIN calls, other \in DOMAIN calls :
        /\ calls[id].kind = "ProcessMessage" /\ calls[id].ret = "RecvFailed"
        /\ calls[other].kind = "ProcessMessage" /\ calls[other].pc = "returned"
        /\ Occurrences(answered, other) = 1


(***************************************************************************)
(* Claims about Gateway::shutdown.                                         *)
(***************************************************************************)
\* the loop has acknowledged the Shutdown command of a call
Acknowledged(id) == Occurrences(answered, id) = 1 /\ calls[id].sent = "Ok"

\* C38 (the part the code keeps): a shutdown called on a gateway that was
\* never started returns Ok and nothing of it is enqueued, and a shutdown
\* returns Ok on a started gateway only after the loop acknowledged its
\* Shutdown command.
C38_ShutdownNeverStartedOrRunning ==
    \A id \in DOMAIN calls :
        IsShutdown(id) =>
            /\ calls[id].at = "Initialized" =>
                  /\ calls[id].pc = "returned"
                  /\ calls[id].ret = "Ok"
                  /\ C5_NeverProcessed(id)
            /\ (calls[id].at # "Initialized" /\ calls[id].ret = "Ok") =>
                  Acknowledged(id)

\* C38: a shutdown called on a gateway that is not running, never started or
\* already stopped after an earlier shutdown, returns Ok and has no effect;
\* on a running gateway it returns Ok only after the loop acknowledged the
\* Shutdown command.
C38_ShutdownWhenNotRunning ==
    \A id \in DOMAIN calls :
        IsShutdown(id) =>
            /\ (calls[id].at \in {"Initialized", "Stopped"} /\ calls[id].pc = "returned") =>
                  /\ calls[id].ret = "Ok"
                  /\ C5_NeverProcessed(id)
            /\ (calls[id].at \notin {"Initialized", "Stopped"} /\ calls[id].ret = "Ok") =>
                  Acknowledged(id)

\* a second shutdown was called after the loop stopped on the first, and it
\* has returned
C38_Witness ==
    /\ run_pc = "done"
    /\ \E a \in DOMAIN calls : \E b \in DOMAIN calls :
          /\ IsShutdown(a) /\ calls[a].at = "Running" /\ calls[a].ret = "Ok"
          /\ IsShutdown(b) /\ calls[b].at = "Stopped" /\ calls[b].pc = "returned"


(***************************************************************************)
(* Claims about the entry point and the configuration.                     *)
(***************************************************************************)
\* the loop of run has exited, or was never entered
LoopExited == run_pc \notin {"recv", "process", "shutdown"}

\* C39: once main has received Ctrl+C, the loop of the gateway eventually
\* exits, the wait on the gateway task completes and main returns.
C39_MainReturnsAfterCtrlC ==
    (main.pc = "join") ~> (main.pc = "returned" /\ LoopExited)

\* main has received Ctrl+C while the task is in the loop of run
C39_Witness == main.pc = "join" /\ run_pc = "recv" /\ chan = <<>>

\* the configuration main went on with was accepted by Config::validate
Accepted == main.config # <<>> /\ main.file # None

\* what the configuration must have for the gateway to run
Runnable(cfg) ==
    /\ cfg.general.queue_size > 0
    /\ cfg.security.default_encryption_key # ""
    /\ cfg.security.default_signing_key # ""
    /\ \A i \in DOMAIN cfg.protocols.mil_std_1553.remote_terminals :
          cfg.protocols.mil_std_1553.remote_terminals[i] <= MaxRemoteTerminal
    /\ cfg.protocols.ethernet_ip.port # 0
    /\ \A i \in DOMAIN cfg.translation_rules :
          /\ cfg.translation_rules[i].name # ""
          /\ cfg.translation_rules[i].source # cfg.translation_rules[i].target

\* C40: every configuration Config::validate accepts can be started: none
\* of them has a queue_size the channel cannot be made with, an empty
\* default key id, a remote terminal above 31, port 0, a rule without a
\* name or a rule from a protocol to itself, and run reaches its loop
\* without aborting.
C40_AcceptedConfigStarts ==
    /\ Accepted => Runnable(main.config[1])
    /\ main.task # "panicked"

\* a configuration file with queue_size 0 was accepted and the task that
\* calls run has panicked
C40_Witness ==
    /\ Accepted
    /\ main.config[1].general.queue_size = 0
    /\ main.task = "panicked"

====
